---------------------------- MODULE Spec2Model ----------------------------
(***************************************************************************)
(* Client-side prediction / server-reconciliation networking core of the   *)
(* game: InputBuffer (input sequencer), NetProtocol (codec), Reconciler    *)
(* and NetClient (session manager).                                        *)
(*                                                                         *)
(* Numbers.  Positions are JavaScript doubles.  A coordinate is modelled   *)
(* as an integer count of thousandths of a unit (1 unit = 1000), so 0.01   *)
(* is 10 and 0.1 is 100.  Times are integer milliseconds.                  *)
(***************************************************************************)
EXTENDS Integers, Sequences, FiniteSets, TLC

VARIABLES
    \* ---- InputBuffer (src/unnamed/part_001) ----
    nextSeq,            \* this.nextSeq
    buffer,             \* contents of the array this.buffer refers to
    lastProcessedSeq,   \* this.lastProcessedSeq, the ack cursor
    totalInputs,        \* this.totalInputs
    totalAcked,         \* this.totalAcked
    \* ---- environment ----
    now,                \* Date.now()
    \* ---- call history (what the callers of InputBuffer observed) ----
    call,               \* the last call: [op, arg, ret]
    issued,             \* the sequence numbers addInput returned, in call order
    base,               \* the buffer as it was before the current run of acknowledge calls
    baseCursor,         \* the ack cursor before the current run of acknowledge calls
    ackMax,             \* the highest cursor of the current run of acknowledge calls, -1 if none
    returned,           \* contents of the array getUnacknowledgedInputs returned last
    returnedAt,         \* its contents at the time it was returned
    returnedLive,       \* TRUE iff that array is the very array this.buffer refers to
    returnedTouched,    \* TRUE iff the caller modified that array since
    \* ---- NetClient and Reconciler (src/client/net) ----
    gameSet,            \* TRUE iff setGame was called: this.reconciler is a Reconciler
    playerSelf,         \* game.playerSelf: the local player object, or NoPlayer
    reconciler,         \* the fields of this.reconciler
    messagesReceived,   \* this.stats.messagesReceived
    messagesSent,       \* this.stats.messagesSent
    moveMessage,        \* the last 'playerMove' message sendMove emitted, or NoMessage
    \* ---- NetProtocol delta functions (src/unnamed/part_000) ----
    current,            \* the entity state given as `current`
    previous,           \* the entity state given as `previous`, or Absent
    delta,              \* what calculatePlayerDelta / calculateKnifeDelta returned
    applied,            \* what applyDelta(delta, previous) returned
    codecStep,          \* "init", "delta" (delta is computed), "applied" (applied is computed)
    \* ---- NetProtocol.quantizePosition ----
    quantRange,         \* "coordinate": quantIn is a value in thousandths;
                        \* "high": quantIn is k, the value is 2^45 + k/128
    quantIn,            \* the argument
    quantOnce,          \* quantizePosition(argument)
    quantTwice,         \* quantizePosition(quantizePosition(argument))
    quantStep,          \* how many of the two are computed: 0, 1, 2
    \* ---- NetProtocol validation ----
    valData,            \* the payload given to a validate function: { targetX, targetZ }
    valCalled,          \* the function called: "none", "move", "knifeThrow"
    valResult,          \* what it returned
    \* ---- TimeSync (src/client/net/TimeSync.js) and the timers of the page ----
    timeSync,           \* the fields of the TimeSync object
    timers,             \* the timers setInterval / setTimeout scheduled and nobody cleared
    pongAccepted,       \* the age (ms) of the probe the last handlePong call accepted, -1 if
                        \* that call discarded the response or no call was made
    \* ---- NetClient connection (src/client/net/NetClient.js) and its socket ----
    client,             \* connected, reconnecting, reconnectAttempt, roomCode, lastHeartbeat,
                        \* heartbeatTimer and the state-update statistics of the NetClient
    sock,               \* the socket: "closed", "opening" (connect() called, no answer yet), "open"
    lastKnownState,     \* this.lastKnownState: the Maps players and knives, as functions
    rejoinRequests,     \* the 'rejoinRoom' payloads emitted so far, in order
    destroyed,          \* TRUE iff destroy() was called
    recoverable,        \* TRUE iff the socket was lost for 'io server disconnect' or
                        \* 'transport close' and no 'connect' event came since
    connectedAt,        \* Date.now() at the last 'connect' event, -1 if none
    lateConnect,        \* TRUE iff socket.connect() was called after destroy()
    \* ---- remote entity of the game (src/game3d.js) ----
    remote              \* opponentSnapshots, interpolationDelay, serverTimeOffset,
                        \* networkStats and playerOpponent of the game

bufVars   == <<nextSeq, buffer, lastProcessedSeq, totalInputs, totalAcked>>
histVars  == <<call, issued, base, baseCursor, ackMax, returned, returnedAt, returnedLive, returnedTouched>>
sessVars  == <<gameSet, playerSelf, reconciler, messagesReceived, messagesSent, moveMessage>>
codecVars == <<current, previous, delta, applied, codecStep>>
quantVars == <<quantRange, quantIn, quantOnce, quantTwice, quantStep>>
valVars   == <<valData, valCalled, valResult>>
syncVars  == <<timeSync, timers, pongAccepted>>
connOther == <<client, sock, destroyed, recoverable, connectedAt, lateConnect>>
connVars  == <<lastKnownState, rejoinRequests, connOther>>
remoteVars == <<remote>>
vars      == <<bufVars, now, histVars, sessVars, codecVars, quantVars, valVars, syncVars, connVars, remoteVars>>

\* what the InputBuffer specifications leave alone
outsideInputBuffer == <<sessVars, codecVars, quantVars, valVars, syncVars, connVars, remoteVars>>

-----------------------------------------------------------------------------
(* Bounds of the model *)

MaxInputs == 5      \* addInput calls in SpecInputBuffer
MaxCursor == 7      \* acknowledge cursors range over 0..MaxCursor
MaxTime   == 1      \* Date.now() ranges over 0..MaxTime
MaxSnapInputs == 3  \* addInput calls in SpecSnapshot
CapExtra  == 2      \* addInput calls beyond the cap in SpecInputBufferCap
CapWindow == 3      \* SpecInputBufferCap: acknowledge and clear are called while at most
                    \* CapWindow inputs were added or at most CapWindow are missing to the cap

(* Program constants *)

BufferCap == 100    \* if (this.buffer.length > 100)

-----------------------------------------------------------------------------
(* Helpers *)

Max(a, b) == IF a >= b THEN a ELSE b

SeqsOf(buf) == {buf[i].seq : i \in 1..Len(buf)}

\* filter with item.seq >= cursor: the acknowledged input itself is kept
FilterAboveOrEqual(buf, cursor) == SelectSeq(buf, LAMBDA item : item.seq >= cursor)

\* this.buffer.filter(item => item.seq > lastProcessedSeq)
FilterAbove(buf, cursor) == SelectSeq(buf, LAMBDA item : item.seq > cursor)

\* The payloads of a move input, { targetX, targetZ }
Inputs == {[targetX |-> 1000, targetZ |-> 0], [targetX |-> 0, targetZ |-> 2000]}

\* The one payload of the specifications in which the payload plays no role
OneInput == [targetX |-> 1000, targetZ |-> 0]

Cursors == 0..MaxCursor

NoCall == [op |-> "none", arg |-> 0, ret |-> 0]

-----------------------------------------------------------------------------
(* InputBuffer *)

\* constructor
InputBufferInit ==
    /\ nextSeq = 1
    /\ buffer = <<>>
    /\ lastProcessedSeq = 0
    /\ totalInputs = 0
    /\ totalAcked = 0

\* unshift instead of push: the new entry goes to the front
PushedFront(buf, seq, input, timestamp) ==
    <<[seq |-> seq, input |-> input, timestamp |-> timestamp]>> \o buf

\* this.buffer.push({ seq, input: { ...input }, timestamp })
Pushed(buf, seq, input, timestamp) ==
    Append(buf, [seq |-> seq, input |-> input, timestamp |-> timestamp])

\* pop instead of shift: the entry just added is dropped
EvictedNewest(buf) == IF Len(buf) > BufferCap THEN SubSeq(buf, 1, Len(buf) - 1) ELSE buf

\* if (this.buffer.length > 100) { this.buffer.shift(); }
Evicted(buf) == IF Len(buf) > BufferCap THEN Tail(buf) ELSE buf

\* addInput(input): the state change; the value returned is nextSeq (before the call)
addInput(input) ==
    /\ nextSeq' = nextSeq + 1
    /\ buffer' = Evicted(Pushed(buffer, nextSeq, input, now))
    /\ totalInputs' = totalInputs + 1
    /\ UNCHANGED <<lastProcessedSeq, totalAcked>>

\* < instead of <=: a duplicate of the current cursor is processed again
IsStaleStrict(cursor) == cursor < lastProcessedSeq

\* if (lastProcessedSeq <= this.lastProcessedSeq) return;
IsStale(cursor) == cursor <= lastProcessedSeq

\* acknowledge(lastProcessedSeq)
acknowledge(cursor) ==
    IF IsStale(cursor)
    THEN UNCHANGED bufVars
    ELSE /\ buffer' = FilterAbove(buffer, cursor)
         /\ totalAcked' = totalAcked + (Len(buffer) - Len(FilterAbove(buffer, cursor)))
         /\ lastProcessedSeq' = cursor
         /\ UNCHANGED <<nextSeq, totalInputs>>

\* return this.buffer: the caller is given the buffer's own array
getUnacknowledgedInputsLive == [list |-> buffer, live |-> TRUE]

\* getUnacknowledgedInputs(): return this.buffer.slice().  The result is a new
\* array (live = FALSE) holding the entries of the buffer.
getUnacknowledgedInputs == [list |-> buffer, live |-> FALSE]

\* a clear that also restarts the numbering
clearAndRestart ==
    /\ buffer' = <<>>
    /\ nextSeq' = 1
    /\ UNCHANGED <<lastProcessedSeq, totalInputs, totalAcked>>

\* clear(): this.buffer = []
clear ==
    /\ buffer' = <<>>
    /\ UNCHANGED <<nextSeq, lastProcessedSeq, totalInputs, totalAcked>>


\* addInput(input): return seq, the value of this.nextSeq before the increment
addInputResult == nextSeq

-----------------------------------------------------------------------------
(* Objects.  A JavaScript object is a record; { ...a, ...b } is Merge(a, b). *)
(* null and undefined are the records below, never a field's value: a field  *)
(* that is null or undefined is left out of the record's domain.             *)

Absent       == [absent |-> TRUE]          \* a missing `previous` (undefined)
Null         == [null |-> TRUE]            \* the value null
NotComputed  == [notComputed |-> TRUE]     \* no call was made yet
TypeError    == [thrown |-> "TypeError"]   \* the call threw a TypeError
NoMessage    == [event |-> "none"]            \* nothing was emitted
NoPlayer     == [noPlayer |-> TRUE]        \* game.playerSelf is null

Merge(a, b) ==
    [f \in (DOMAIN a) \cup (DOMAIN b) |-> IF f \in DOMAIN b THEN b[f] ELSE a[f]]

Abs(n) == IF n < 0 THEN -n ELSE n

Sign(n) == IF n < 0 THEN -1 ELSE IF n > 0 THEN 1 ELSE 0

\* the integer nearest to p / q (q > 0), a tie going to the even one: the rounding
\* of a double operation's exact result
RoundHalfEven(p, q) ==
    LET f == p \div q
        r == p % q
    IN  IF 2 * r < q THEN f
        ELSE IF 2 * r > q THEN f + 1
        ELSE IF f % 2 = 0 THEN f ELSE f + 1

RECURSIVE SqrtBetween(_, _, _)
SqrtBetween(n, lo, hi) ==
    IF lo >= hi THEN lo
    ELSE LET mid == (lo + hi + 1) \div 2
         IN  IF mid * mid <= n THEN SqrtBetween(n, mid, hi) ELSE SqrtBetween(n, lo, mid - 1)

\* Math.sqrt on the grid of thousandths: the largest integer whose square is <= n
Sqrt(n) == SqrtBetween(n, 0, 46340)

-----------------------------------------------------------------------------
(* NetProtocol: quantization and delta compression *)

\* Math.floor(value * 100 + 1) / 100: always the next step above
quantizePositionNextStep(value) == ((value \div 10) + 1) * 10

\* quantizePosition(value): Math.round(value * 100) / 100, value in thousandths.
\* Math.round rounds to the nearest integer, a tie going up.  The double nearest to
\* a decimal such as 1.005 is not a tie (1.005 * 100 is 100.49999999999999), which
\* thousandths cannot tell: the states of the model hold no coordinate ending in 5.
quantizePosition(value) == ((value + 5) \div 10) * 10

\* quantizePosition(x) for the double x = 2^45 + k/128, given as k, returned as k'
\* with the result 2^45 + k'/128.  The doubles of [2^45, 2^46) are 1/128 apart and
\* those of [2^51, 2^52), where x * 100 lies, 1/2 apart:
\*   x * 100           = 100 * 2^45 + h/2,  h the nearest integer to 25k/16;
\*   Math.round(above) = 100 * 2^45 + n,    n = floor((h + 1) / 2);
\*   above / 100       = 2^45 + k'/128,     k' the nearest integer to 32n/25.
quantizePositionHigh(k) ==
    LET h == RoundHalfEven(25 * k, 16)
        n == (h + 1) \div 2
    IN  RoundHalfEven(32 * n, 25)

\* Pairs <<a, b>> of coordinates (thousandths) whose decimal difference equals the
\* threshold it is compared with while the difference of the two doubles, as
\* Math.abs(a - b) computes it, is above it: 0.04 - 0.03 is 0.010000000000000002 and
\* 0.4 - 0.3 is 0.10000000000000003, where 0.01 - 0 is 0.01 and 0.1 - 0 is 0.1.
\* The table covers the coordinates of PlayerStates and KnifeStates.
DoubleDiffAbove == {<<30, 40>>, <<40, 30>>, <<300, 400>>, <<400, 300>>}

\* Math.abs(a - b) > posThreshold
Exceeds(a, b, posThreshold) ==
    \/ Abs(a - b) > posThreshold
    \/ Abs(a - b) = posThreshold /\ <<a, b>> \in DoubleDiffAbove

\* the fields calculatePlayerDelta compares by !==
PlayerFlags == {"health", "isDead", "isMoving"}

\* a delta that leaves isMoving out
calculatePlayerDeltaNoIsMoving(cur, prev) ==
    IF prev = Absent
    THEN Merge(cur, [full |-> TRUE])
    ELSE LET changed == {f \in {"x", "z"} : Exceeds(cur[f], prev[f], 10)}
                            \cup {f \in {"health", "isDead"} : cur[f] # prev[f]}
         IN  IF changed = {}
             THEN Null
             ELSE [f \in {"playerId"} \cup changed |->
                      IF f \in {"x", "z"} THEN quantizePosition(cur[f]) ELSE cur[f]]

\* calculatePlayerDelta(current, previous); posThreshold is 0.01
calculatePlayerDelta(cur, prev) ==
    IF prev = Absent
    THEN Merge(cur, [full |-> TRUE])
    ELSE LET changed == {f \in {"x", "z"} : Exceeds(cur[f], prev[f], 10)}
                            \cup {f \in PlayerFlags : cur[f] # prev[f]}
         IN  IF changed = {}
             THEN Null
             ELSE [f \in {"playerId"} \cup changed |->
                      IF f \in {"x", "z"} THEN quantizePosition(cur[f]) ELSE cur[f]]

\* calculateKnifeDelta(current, previous); posThreshold is 0.1
calculateKnifeDelta(cur, prev) ==
    IF prev = Absent
    THEN Merge(cur, [full |-> TRUE])
    ELSE LET changed == {f \in {"x", "z"} : Exceeds(cur[f], prev[f], 100)}
         IN  IF changed = {}
             THEN Null
             ELSE [f \in {"knifeId"} \cup changed |->
                      IF f \in {"x", "z"} THEN quantizePosition(cur[f]) ELSE cur[f]]

\* { ...delta, ...previous }: the fields of previous win
applyDeltaPreviousWins(d, prev) ==
    IF d = Null THEN TypeError
    ELSE IF "full" \in DOMAIN d \/ prev = Absent THEN d
    ELSE Merge(d, prev)

\* applyDelta(delta, previous).  delta.full of a null delta throws a TypeError;
\* delta.full of a delta without the field is undefined.
applyDelta(d, prev) ==
    IF d = Null THEN TypeError
    ELSE IF "full" \in DOMAIN d \/ prev = Absent THEN d
    ELSE Merge(prev, d)

-----------------------------------------------------------------------------
(* NetProtocol: validation of client commands.  A JavaScript value is a     *)
(* record [type, class, value]: type is what typeof gives; for a number,    *)
(* class is "finite", "NaN", "Infinity" or "-Infinity" and value holds a    *)
(* finite number in thousandths.                                            *)

CoordinateBound == 200000   \* Math.abs(data.targetX) > 200

Finite(v)  == [type |-> "number", class |-> "finite", value |-> v]
NaN        == [type |-> "number", class |-> "NaN", value |-> 0]
PlusInfinity  == [type |-> "number", class |-> "Infinity", value |-> 0]
MinusInfinity == [type |-> "number", class |-> "-Infinity", value |-> 0]
NotANumber(type) == [type |-> type, class |-> "none", value |-> 0]

\* typeof v !== 'number'
IsNoNumber(v) == v.type # "number"

\* isNaN(v), for a v that is a number
IsNaN(v) == v.class = "NaN"

\* Math.abs(v) > bound, for a v that is a number; a comparison with NaN is false
AbsAbove(v, bound) ==
    \/ v.class \in {"Infinity", "-Infinity"}
    \/ v.class = "finite" /\ Abs(v.value) > bound

\* validateMoveCommand(data)
validateMoveCommand(data) ==
    IF IsNoNumber(data.targetX) \/ IsNoNumber(data.targetZ) THEN FALSE
    ELSE IF IsNaN(data.targetX) \/ IsNaN(data.targetZ) THEN FALSE
    ELSE IF AbsAbove(data.targetX, CoordinateBound) \/ AbsAbove(data.targetZ, CoordinateBound)
         THEN FALSE
    ELSE TRUE

\* validateKnifeThrowCommand(data)
validateKnifeThrowCommand(data) ==
    IF IsNoNumber(data.targetX) \/ IsNoNumber(data.targetZ) THEN FALSE
    ELSE IF IsNaN(data.targetX) \/ IsNaN(data.targetZ) THEN FALSE
    ELSE TRUE

-----------------------------------------------------------------------------
(* Reconciler *)

VisibleError      == 100      \* if (errorMagnitude > 0.1)
MinMoveDistance   == 100      \* if (distance > 0.1)
TeleportError     == 10000    \* errorMagnitude < 10
MaxMove           == 390      \* moveSpeed * dt: 23.4 * (1 / 60)
smoothingDuration == 100      \* this.smoothingDuration = 100
smoothingEnabled  == TRUE     \* this.smoothingEnabled = true

\* constructor
ReconcilerInit ==
    [correctionInProgress |-> FALSE,
     correctionStartTime |-> 0,
     correctionStartPos |-> [x |-> 0, z |-> 0],
     correctionTargetPos |-> [x |-> 0, z |-> 0],
     totalCorrections |-> 0,
     totalCorrectionMagnitude |-> 0,
     maxCorrectionMagnitude |-> 0,
     lastCorrectionTime |-> 0]

PositionOf(player) == [x |-> player.x, z |-> player.z]

\* d * ratio with ratio = MaxMove / distance, cut to thousandths
Scaled(d, distance) == Sign(d) * ((Abs(d) * MaxMove) \div distance)

\* applyInput(player, input): the player after the call.  Distances are compared by
\* their squares; the step is exact along an axis and cut to thousandths elsewhere.
applyInput(player, input) ==
    IF "targetX" \in DOMAIN input /\ "targetZ" \in DOMAIN input
    THEN LET aimed == Merge(player, [targetX |-> input.targetX, targetZ |-> input.targetZ,
                                     isMoving |-> TRUE])
             dx == input.targetX - player.x
             dz == input.targetZ - player.z
             distanceSq == dx * dx + dz * dz
         IN  IF distanceSq > MinMoveDistance * MinMoveDistance
             THEN IF distanceSq <= MaxMove * MaxMove
                  THEN Merge(aimed, [x |-> input.targetX, z |-> input.targetZ,
                                     isMoving |-> FALSE])
                  ELSE Merge(aimed, [x |-> player.x + Scaled(dx, Sqrt(distanceSq)),
                                     z |-> player.z + Scaled(dz, Sqrt(distanceSq))])
             ELSE aimed
    ELSE player

moveSpeed == 390   \* moveSpeed: 0.39, the distance a player moves in one frame

\* the move handler of the game: the player is given the target and set moving
Aimed(player, input) ==
    Merge(player, [targetX |-> input.targetX, targetZ |-> input.targetZ, isMoving |-> TRUE])

\* updatePlayerMovement(player, dt) of the game for the local player: the player
\* after one frame.  dt is not used; a target of null is a field the record lacks.
Arrived(player) ==
    [f \in DOMAIN player \ {"targetX", "targetZ"} |->
        IF f = "isMoving" THEN FALSE ELSE player[f]]

updatePlayerMovement(player) ==
    IF player.health <= 0
    THEN Merge(player, [isMoving |-> FALSE])
    ELSE IF player.isMoving /\ "targetX" \in DOMAIN player /\ "targetZ" \in DOMAIN player
         THEN LET dx == player.targetX - player.x
                  dz == player.targetZ - player.z
                  distanceSq == dx * dx + dz * dz
              IN  IF distanceSq > 1
                  THEN IF distanceSq <= moveSpeed * moveSpeed
                       THEN Arrived(Merge(player, [x |-> player.targetX,
                                                   z |-> player.targetZ]))
                       ELSE Merge(player, [x |-> player.x + Scaled(dx, Sqrt(distanceSq)),
                                           z |-> player.z + Scaled(dz, Sqrt(distanceSq))])
                  ELSE Arrived(player)
         ELSE player

\* for (const inputItem of unackedInputs) this.applyInput(player, inputItem.input)
RECURSIVE Replayed(_, _)
Replayed(player, unackedInputs) ==
    IF unackedInputs = <<>> THEN player
    ELSE Replayed(applyInput(player, Head(unackedInputs).input), Tail(unackedInputs))

\* the player with the server's position and vitals, the unacknowledged inputs replayed
AfterReplay(player, serverState, unackedInputs) ==
    LET vitals == [f \in {"health", "isDead"} \cap DOMAIN serverState |-> serverState[f]]
    IN  Replayed(Merge(Merge(player, PositionOf(serverState)), vitals), unackedInputs)

\* smoothing whatever the error is, the teleport threshold included
SmoothableAtTeleport(errorSq) == smoothingEnabled /\ errorSq <= TeleportError * TeleportError

\* this.smoothingEnabled && errorMagnitude < 10
Smoothable(errorSq) == smoothingEnabled /\ errorSq < TeleportError * TeleportError

\* the player left where the replay put it
NotSnapped(replayed, predicted) == replayed

\* player.x = predictedX; player.z = predictedZ
Snapped(replayed, predicted) == Merge(replayed, predicted)

\* reconcile(serverState, unackedInputs) at Date.now() = time: the player and the
\* fields of the reconciler after the call
reconcile(player, rec, serverState, unackedInputs, time) ==
    IF player = NoPlayer
    THEN [player |-> player, reconciler |-> rec]
    ELSE LET predicted == PositionOf(player)
             replayed == AfterReplay(player, serverState, unackedInputs)
             errorX == replayed.x - predicted.x
             errorZ == replayed.z - predicted.z
             errorSq == errorX * errorX + errorZ * errorZ
             errorMagnitude == Sqrt(errorSq)
             counted == [rec EXCEPT
                            !.totalCorrections = @ + 1,
                            !.totalCorrectionMagnitude = @ + errorMagnitude,
                            !.maxCorrectionMagnitude = Max(@, errorMagnitude),
                            !.lastCorrectionTime = time]
         IN  IF errorSq > VisibleError * VisibleError
             THEN IF Smoothable(errorSq)
                  THEN [player |-> Snapped(replayed, predicted),
                        reconciler |-> [counted EXCEPT
                                           !.correctionInProgress = TRUE,
                                           !.correctionStartTime = time,
                                           !.correctionStartPos = predicted,
                                           !.correctionTargetPos = PositionOf(replayed)]]
                  ELSE [player |-> replayed,
                        reconciler |-> [counted EXCEPT !.correctionInProgress = FALSE]]
             ELSE [player |-> replayed, reconciler |-> rec]

RECURSIVE Gcd(_, _)
Gcd(a, b) == IF b = 0 THEN a ELSE Gcd(b, a % b)

\* lerp(a, b, easeOutCubic(elapsed / smoothingDuration)), cut to thousandths:
\* a + (b - a) * (1 - (1 - t)^3) with 1 - t = p/q in lowest terms
Eased(a, b, elapsed) ==
    LET g == Gcd(smoothingDuration - elapsed, smoothingDuration)
        p == (smoothingDuration - elapsed) \div g
        q == smoothingDuration \div g
    IN  a + Sign(b - a) * ((Abs(b - a) * (q * q * q - p * p * p)) \div (q * q * q))

\* the correction ending only after more than the smoothing duration
SmoothingOverLate(elapsed) == elapsed > smoothingDuration

\* elapsed >= this.smoothingDuration
SmoothingOver(elapsed) == elapsed >= smoothingDuration

\* updateSmoothing() at Date.now() = time
updateSmoothing(player, rec, time) ==
    IF ~rec.correctionInProgress \/ player = NoPlayer
    THEN [player |-> player, reconciler |-> rec]
    ELSE IF SmoothingOver(time - rec.correctionStartTime)
         THEN [player |-> Merge(player, rec.correctionTargetPos),
               reconciler |-> [rec EXCEPT !.correctionInProgress = FALSE]]
         ELSE [player |->
                   Merge(player,
                         [x |-> Eased(rec.correctionStartPos.x, rec.correctionTargetPos.x,
                                      time - rec.correctionStartTime),
                          z |-> Eased(rec.correctionStartPos.z, rec.correctionTargetPos.z,
                                      time - rec.correctionStartTime)]),
               reconciler |-> rec]

-----------------------------------------------------------------------------
(* Rational numbers [num, den] in lowest terms, den > 0: the estimates of    *)
(* TimeSync.  The arithmetic is exact where that of doubles is rounded.      *)

Rat(n, d) == LET g == Gcd(Abs(n), d) IN [num |-> n \div g, den |-> d \div g]

RatOf(n) == [num |-> n, den |-> 1]

RatAdd(a, b) == Rat(a.num * b.den + b.num * a.den, a.den * b.den)

RatSub(a, b) == Rat(a.num * b.den - b.num * a.den, a.den * b.den)

\* (p / q) * a
RatTimes(p, q, a) == Rat(p * a.num, q * a.den)

RatAbs(a) == [num |-> Abs(a.num), den |-> a.den]

-----------------------------------------------------------------------------
(* Timers.  A timer is [id, kind, due]: kind "ping" is the interval of       *)
(* TimeSync.start, "heartbeat" the interval of NetClient._startHeartbeat,    *)
(* "reconnect" the timeout of NetClient._attemptReconnect.  The id is the    *)
(* handle setInterval returns; 0 stands for null.  A handle is only ever     *)
(* compared with the timers that exist, so the model takes the least id not  *)
(* in use where the page takes the next one.                                 *)

FreshId(tm) == CHOOSE i \in 1..(Cardinality(tm) + 1) : \A t \in tm : t.id # i

\* clearInterval(id)
Cleared(tm, id) == {t \in tm : t.id # id}

\* a timer's callback may run
Due(t, time) == t.due <= time

-----------------------------------------------------------------------------
(* TimeSync *)

OFFSET_ALPHA == 1     \* this.OFFSET_ALPHA = 0.1, in tenths
RTT_ALPHA    == 2     \* this.RTT_ALPHA = 0.2, in tenths
JITTER_ALPHA == 1     \* this.JITTER_ALPHA = 0.1, in tenths
PingPeriod   == 2000  \* setInterval(..., 2000)
StaleWindow  == 5000  \* const cutoff = clientSendTime - 5000

\* constructor
TimeSyncInit ==
    [offset |-> RatOf(0),
     rtt |-> RatOf(0),
     jitter |-> RatOf(0),
     pingInterval |-> 0,
     pendingPings |-> {},
     nextPingSeq |-> 1,
     syncCount |-> 0,
     lastSyncTime |-> 0]

\* for (const [oldSeq, data] of this.pendingPings.entries())
\*     if (data.clientSendTime < cutoff) this.pendingPings.delete(oldSeq)
AgedOut(pending, cutoff) == {p \in pending : ~(p.clientSendTime < cutoff)}

\* sendPing() at Date.now() = time: the TimeSync object after the call.  The Map
\* pendingPings is the set of its entries [seq, clientSendTime].
sendPing(ts, time) ==
    [ts EXCEPT
        !.nextPingSeq = @ + 1,
        !.pendingPings =
            AgedOut(@ \cup {[seq |-> ts.nextPingSeq, clientSendTime |-> time]},
                    time - StaleWindow)]

\* a start() without the check of this.pingInterval
startUnguarded(ts, tm, time) ==
    [timeSync |-> [sendPing(ts, time) EXCEPT !.pingInterval = FreshId(tm)],
     timers |-> tm \cup {[id |-> FreshId(tm), kind |-> "ping", due |-> time + PingPeriod]}]

\* start() at Date.now() = time: the TimeSync object and the timers after the call
start(ts, tm, time) ==
    IF ts.pingInterval # 0
    THEN [timeSync |-> ts, timers |-> tm]
    ELSE [timeSync |-> [sendPing(ts, time) EXCEPT !.pingInterval = FreshId(tm)],
          timers |-> tm \cup {[id |-> FreshId(tm), kind |-> "ping", due |-> time + PingPeriod]}]

\* stop()
stop(ts, tm) ==
    IF ts.pingInterval # 0
    THEN [timeSync |-> [ts EXCEPT !.pingInterval = 0],
          timers |-> Cleared(tm, ts.pingInterval)]
    ELSE [timeSync |-> ts, timers |-> tm]

\* this.pendingPings.get(seq): the entries with that seq (none or one)
Pending(ts, seq) == {p \in ts.pendingPings : p.seq = seq}

\* alpha * measured + (1 - alpha) * old, alpha in tenths
Ema(alpha, measured, old) == RatAdd(RatTimes(alpha, 10, measured), RatTimes(10 - alpha, 10, old))

\* a response without a pending probe is counted as a sample
handlePongCountingAll(ts, data, time) ==
    IF Pending(ts, data.seq) = {}
    THEN [ts EXCEPT !.syncCount = @ + 1, !.lastSyncTime = time]
    ELSE ts

\* every sample overwrites the estimates
handlePongOverwriting(ts, data, time) ==
    IF Pending(ts, data.seq) = {}
    THEN ts
    ELSE LET pending == CHOOSE p \in Pending(ts, data.seq) : TRUE
             measuredRTT == RatOf(time - pending.clientSendTime)
             measuredOffset == RatSub(RatAdd(RatOf(data.serverTime), RatTimes(1, 2, measuredRTT)),
                                      RatOf(time))
         IN  [ts EXCEPT
                 !.pendingPings = @ \ {pending},
                 !.rtt = measuredRTT,
                 !.offset = measuredOffset,
                 !.syncCount = @ + 1,
                 !.lastSyncTime = time]

\* the accepted probe stays pending
handlePongKeepingProbe(ts, data, time) ==
    IF Pending(ts, data.seq) = {}
    THEN ts
    ELSE LET pending == CHOOSE p \in Pending(ts, data.seq) : TRUE
             measuredRTT == RatOf(time - pending.clientSendTime)
             measuredOffset == RatSub(RatAdd(RatOf(data.serverTime), RatTimes(1, 2, measuredRTT)),
                                      RatOf(time))
             rttDelta == RatAbs(RatSub(measuredRTT, ts.rtt))
         IN  IF ts.syncCount = 0
             THEN [ts EXCEPT
                      !.rtt = measuredRTT,
                      !.offset = measuredOffset,
                      !.syncCount = @ + 1,
                      !.lastSyncTime = time]
             ELSE [ts EXCEPT
                      !.jitter = Ema(JITTER_ALPHA, rttDelta, @),
                      !.rtt = Ema(RTT_ALPHA, measuredRTT, @),
                      !.offset = Ema(OFFSET_ALPHA, measuredOffset, @),
                      !.syncCount = @ + 1,
                      !.lastSyncTime = time]

\* handlePong(data) at Date.now() = time: the TimeSync object after the call
handlePong(ts, data, time) ==
    IF Pending(ts, data.seq) = {}
    THEN ts
    ELSE LET pending == CHOOSE p \in Pending(ts, data.seq) : TRUE
             measuredRTT == RatOf(time - pending.clientSendTime)
             measuredOffset == RatSub(RatAdd(RatOf(data.serverTime), RatTimes(1, 2, measuredRTT)),
                                      RatOf(time))
             rttDelta == RatAbs(RatSub(measuredRTT, ts.rtt))
         IN  IF ts.syncCount = 0
             THEN [ts EXCEPT
                      !.pendingPings = @ \ {pending},
                      !.rtt = measuredRTT,
                      !.offset = measuredOffset,
                      !.syncCount = @ + 1,
                      !.lastSyncTime = time]
             ELSE [ts EXCEPT
                      !.pendingPings = @ \ {pending},
                      !.jitter = Ema(JITTER_ALPHA, rttDelta, @),
                      !.rtt = Ema(RTT_ALPHA, measuredRTT, @),
                      !.offset = Ema(OFFSET_ALPHA, measuredOffset, @),
                      !.syncCount = @ + 1,
                      !.lastSyncTime = time]

\* a 'timeSyncPong' event on the socket of a NetClient: the listener the TimeSync
\* registered in its constructor runs, then the listener of the NetClient; each
\* calls handlePong(data), within the one dispatch and so at the same Date.now()
onTimeSyncPong(ts, data, time) ==
    handlePong(handlePong(ts, data, time), data, time)

\* the age of the probe handlePong(data) accepts at Date.now() = time, -1 if it
\* discards the response
AcceptedAge(ts, data, time) ==
    IF Pending(ts, data.seq) = {} THEN -1
    ELSE time - (CHOOSE p \in Pending(ts, data.seq) : TRUE).clientSendTime

-----------------------------------------------------------------------------
(* NetClient: connection, heartbeat, reconnection, delta cache.  The         *)
(* handlers change the NetClient, its TimeSync, the timers and the socket    *)
(* together: an operator takes these four as one record w = [client,         *)
(* timeSync, timers, sock] and gives them back as they are after the call.   *)
(* The socket is the one the constructor is given: connect() on a closed     *)
(* socket opens a connection, which the transport answers by 'connect' or    *)
(* 'connect_error'; disconnect() closes it, and tells the 'disconnect'       *)
(* listeners 'io client disconnect' if it was open.  No callback is          *)
(* registered in this.callbacks, and nothing assigns this.roomCode.          *)

reconnectAttempts == 5       \* options.reconnectAttempts
reconnectDelay    == 1000    \* options.reconnectDelay, ms
heartbeatInterval == 5000    \* options.heartbeatInterval, ms
heartbeatTimeout  == 15000   \* options.heartbeatTimeout, ms

\* constructor, at Date.now() = time
NetClientInit(time) ==
    [connected |-> FALSE,
     roomCode |-> 0,
     reconnecting |-> FALSE,
     reconnectAttempt |-> 0,
     lastHeartbeat |-> time,
     heartbeatTimer |-> 0,
     stateUpdatesReceived |-> 0,
     lastStateUpdateTime |-> 0]

\* new Map()
EmptyMap == [id \in {} |-> Absent]

\* this.lastKnownState = { players: new Map(), knives: new Map() }
LastKnownStateInit == [players |-> EmptyMap, knives |-> EmptyMap]

\* map.set(id, value)
MapSet(map, id, value) == [k \in DOMAIN map \cup {id} |-> IF k = id THEN value ELSE map[k]]

\* map.delete(id)
MapDelete(map, id) == [k \in DOMAIN map \ {id} |-> map[k]]

\* _stopHeartbeat()
stopHeartbeat(w) ==
    LET cleared == IF w.client.heartbeatTimer # 0
                   THEN [w EXCEPT !.timers = Cleared(@, w.client.heartbeatTimer),
                                  !.client.heartbeatTimer = 0]
                   ELSE w
        stopped == stop(cleared.timeSync, cleared.timers)
    IN  [cleared EXCEPT !.timeSync = stopped.timeSync, !.timers = stopped.timers]

\* _startHeartbeat() at Date.now() = time
startHeartbeat(w, time) ==
    LET halted == stopHeartbeat(w)
        started == start(halted.timeSync, halted.timers, time)
        id == FreshId(started.timers)
    IN  [halted EXCEPT
            !.timeSync = started.timeSync,
            !.timers = started.timers \cup
                       {[id |-> id, kind |-> "heartbeat", due |-> time + heartbeatInterval]},
            !.client.heartbeatTimer = id]

\* socket.connect()
socketConnect(w) == IF w.sock = "closed" THEN [w EXCEPT !.sock = "opening"] ELSE w

\* _attemptReconnect() at Date.now() = time
attemptReconnect(w, time) ==
    IF w.client.reconnecting \/ w.client.reconnectAttempt >= reconnectAttempts
    THEN w
    ELSE [w EXCEPT
            !.client.reconnecting = TRUE,
            !.client.reconnectAttempt = @ + 1,
            !.timers = @ \cup {[id |-> FreshId(@), kind |-> "reconnect",
                                due |-> time + reconnectDelay * (w.client.reconnectAttempt + 1)]}]

\* the timeout of _attemptReconnect runs: if (!this.connected) this.socket.connect()
reconnectTimeout(w) == IF ~w.client.connected THEN socketConnect(w) ELSE w

\* the 'connect' listener at Date.now() = time; this.roomCode is null, so
\* onReconnect is not called
onConnect(w, time) ==
    startHeartbeat([w EXCEPT !.client.connected = TRUE,
                             !.client.reconnecting = FALSE,
                             !.client.reconnectAttempt = 0],
                   time)

\* the reasons of a 'disconnect' event the transport gives
RecoverableReasons == {"io server disconnect", "transport close"}
TransportReasons == RecoverableReasons \cup {"ping timeout"}

\* a 'disconnect' listener that attempts to reconnect whatever the reason
onDisconnectAnyReason(w, reason, time) ==
    attemptReconnect(stopHeartbeat([w EXCEPT !.client.connected = FALSE]), time)

\* the 'disconnect' listener
onDisconnect(w, reason, time) ==
    LET halted == stopHeartbeat([w EXCEPT !.client.connected = FALSE])
    IN  IF reason \in RecoverableReasons THEN attemptReconnect(halted, time) ELSE halted

\* socket.disconnect()
socketDisconnect(w, time) ==
    IF w.sock = "open"
    THEN onDisconnect([w EXCEPT !.sock = "closed"], "io client disconnect", time)
    ELSE [w EXCEPT !.sock = "closed"]

\* destroy()
destroy(w, time) ==
    LET halted == stopHeartbeat(w)
        stopped == stop(halted.timeSync, halted.timers)
    IN  socketDisconnect([halted EXCEPT !.timeSync = stopped.timeSync,
                                        !.timers = stopped.timers],
                         time)

\* a heartbeat check that reports at the timeout, not after it
heartbeatCheckAtTimeout(c, time) == time - c.lastHeartbeat >= heartbeatTimeout

\* the heartbeat interval's callback at Date.now() = time: TRUE iff it reports
\* the connection lost
heartbeatCheck(c, time) == time - c.lastHeartbeat > heartbeatTimeout

\* for (const delta of entities) { cached = map.get(delta[key]);
\*     full = cached ? { ...cached, ...delta } : delta; map.set(delta[key], full) }
RECURSIVE DeltasApplied(_, _, _)
DeltasApplied(map, entities, key) ==
    IF entities = <<>>
    THEN map
    ELSE LET d == Head(entities)
             full == IF d[key] \in DOMAIN map THEN Merge(map[d[key]], d) ELSE d
         IN  DeltasApplied(MapSet(map, d[key], full), Tail(entities), key)

\* for (const entity of entities) map.set(entity[key], entity)
RECURSIVE EntitiesSet(_, _, _)
EntitiesSet(map, entities, key) ==
    IF entities = <<>>
    THEN map
    ELSE EntitiesSet(MapSet(map, Head(entities)[key], Head(entities)), Tail(entities), key)

\* for (const knifeId of removedKnives) map.delete(knifeId)
RECURSIVE EntitiesDeleted(_, _)
EntitiesDeleted(map, ids) ==
    IF ids = <<>> THEN map ELSE EntitiesDeleted(MapDelete(map, Head(ids)), Tail(ids))

\* a field the message has (and that is truthy: the arrays are)
Has(data, field) == field \in DOMAIN data

\* _applyDeltaState(deltaData): this.lastKnownState after the call
applyDeltaState(lks, data) ==
    LET players == IF Has(data, "players")
                   THEN DeltasApplied(lks.players, data.players, "playerId")
                   ELSE lks.players
        knives  == IF Has(data, "knives")
                   THEN DeltasApplied(lks.knives, data.knives, "knifeId")
                   ELSE lks.knives
    IN  [players |-> players,
         knives |-> IF Has(data, "removedKnives")
                    THEN EntitiesDeleted(knives, data.removedKnives)
                    ELSE knives]

\* _updateStateCache(data): this.lastKnownState after the call
updateStateCacheKeepsKnives(lks, data) ==
    [players |-> IF Has(data, "players")
                 THEN EntitiesSet(lks.players, data.players, "playerId")
                 ELSE lks.players,
     knives |-> IF Has(data, "knives")
                THEN EntitiesSet(lks.knives, data.knives, "knifeId")
                ELSE lks.knives]

\* _updateStateCache(data): the cache after the call
updateStateCache(lks, data) ==
    [players |-> IF Has(data, "players")
                 THEN EntitiesSet(lks.players, data.players, "playerId")
                 ELSE lks.players,
     knives |-> IF Has(data, "knives")
                THEN EntitiesSet(EmptyMap, data.knives, "knifeId")
                ELSE lks.knives]

\* if (data.delta && !data.full)
IsDelta(data) == Has(data, "delta") /\ data.delta /\ ~(Has(data, "full") /\ data.full)

\* _handleStateUpdate(data): the cache after the call
stateCacheAfter(lks, data) ==
    IF IsDelta(data) THEN applyDeltaState(lks, data) ELSE updateStateCache(lks, data)

\* sendMove: the message it emits at Date.now() = time, actionId being what
\* this.inputBuffer.addInput returned
playerMove(roomCode, input, actionId, time) ==
    [event |-> "playerMove",
     roomCode |-> roomCode,
     targetX |-> input.targetX,
     targetZ |-> input.targetZ,
     actionId |-> actionId,
     seq |-> actionId,
     clientTime |-> time]

\* TimeSync.getServerTime() at Date.now() = time
getServerTime(ts, time) == RatAdd(RatOf(time), ts.offset)

\* a rejoin(roomCode, playerId) that keeps the delta cache
rejoinKeepingCache(roomCode, playerId) ==
    /\ rejoinRequests' = Append(rejoinRequests, [roomCode |-> roomCode, playerId |-> playerId])
    /\ clear
    /\ lastKnownState' = lastKnownState

\* rejoin(roomCode, playerId)
rejoin(roomCode, playerId) ==
    /\ rejoinRequests' = Append(rejoinRequests, [roomCode |-> roomCode, playerId |-> playerId])
    /\ clear
    /\ lastKnownState' = LastKnownStateInit

-----------------------------------------------------------------------------
(* The game's view of the remote player (src/game3d.js): the snapshot        *)
(* buffer, the adaptive interpolation delay and the interpolation.           *)
(* Date.now() and the snapshots' timestamps are integer milliseconds.        *)
(* serverTimeOffset, interpolationDelay, jitter and the render time are      *)
(* doubles with a fractional part: they are integers in hundredths of a      *)
(* millisecond, each operation's result cut to that grid.  Positions are in  *)
(* thousandths, an interpolated one cut towards the position it starts       *)
(* from.  The mesh and the rotation (Math.atan2) are not modelled.           *)

snapshotLimit          == 32     \* this.snapshotLimit = 32
baseInterpolationDelay == 3000   \* this.baseInterpolationDelay = 30, ms
minInterpolationDelay  == 2000   \* this.minInterpolationDelay = 20, ms
maxInterpolationDelay  == 7000   \* this.maxInterpolationDelay = 70, ms
AdaptivePeriod         == 1000   \* now - lastAdaptiveUpdate < 1000
AdaptiveSamples        == 5      \* lastUpdateTimes.length < 5
UpdateTimesCap         == 20     \* lastUpdateTimes.length > 20
InterArrivalCap        == 100    \* interArrivalTimes.length > 100
ExtrapolationGap       == 200    \* dt > 0 && dt < 200
ExtrapolationMax       == 10000  \* Math.min(100, serverNow - latest.timestamp), ms

Min(a, b) == IF a < b THEN a ELSE b

\* p / q for q > 0, cut towards 0
TruncDiv(p, q) == Sign(p) * (Abs(p) \div q)

RECURSIVE Sum(_)
Sum(seq) == IF seq = <<>> THEN 0 ELSE Head(seq) + Sum(Tail(seq))

\* the constructor, at Date.now() = time
RemoteInit(time) ==
    [opponentSnapshots |-> <<>>,
     interpolationDelay |-> 3000,
     serverTimeOffset |-> 0,
     lastUpdateTimes |-> <<>>,
     interArrivalTimes |-> <<>>,
     avgInterArrival |-> 0,
     jitter |-> 0,
     lastAdaptiveUpdate |-> time,
     playerOpponent |-> [x |-> 0, z |-> 0, targetX |-> 0, targetZ |-> 0,
                         isMoving |-> FALSE, facing |-> 1]]

\* an adaptive delay without the upper clamp
adaptiveDelayNoMax(cushion) ==
    Max(minInterpolationDelay, baseInterpolationDelay + cushion)

\* Math.max(min, Math.min(max, base + jitterCushion))
adaptiveDelay(cushion) ==
    Max(minInterpolationDelay, Min(maxInterpolationDelay, baseInterpolationDelay + cushion))

\* updateAdaptiveInterpolationDelay() at Date.now() = time.  With n intervals of
\* sum S and sum of squares Q the variance is (n * Q - S * S) / (n * n).
updateAdaptiveInterpolationDelay(g, time) ==
    IF time - g.lastAdaptiveUpdate < AdaptivePeriod THEN g
    ELSE IF Len(g.lastUpdateTimes) < AdaptiveSamples THEN g
    ELSE LET times == g.lastUpdateTimes
             intervals == [i \in 1..(Len(times) - 1) |-> times[i + 1] - times[i]]
             n == Len(intervals)
             S == Sum(intervals)
             Q == Sum([i \in 1..n |-> intervals[i] * intervals[i]])
             jitter == (Sqrt((n * Q - S * S) * 100) * 10) \div n
             jitterCushion == (jitter * 12) \div 10
         IN  [g EXCEPT !.avgInterArrival = (S * 100) \div n,
                       !.jitter = jitter,
                       !.interpolationDelay = adaptiveDelay(jitterCushion),
                       !.lastAdaptiveUpdate = time]

\* a trim that drops the newest snapshot
TrimmedNewest(snapshots) ==
    IF Len(snapshots) > snapshotLimit
    THEN SubSeq(snapshots, 1, Len(snapshots) - 1)
    ELSE snapshots

\* if (this.opponentSnapshots.length > this.snapshotLimit) this.opponentSnapshots.shift()
Trimmed(snapshots) ==
    IF Len(snapshots) > snapshotLimit THEN Tail(snapshots) ELSE snapshots

\* the snapshot pushed for the opponent's player of a message
SnapshotOf(data) ==
    [timestamp |-> data.serverTime,
     x |-> data.x, z |-> data.z,
     targetX |-> data.targetX, targetZ |-> data.targetZ,
     isMoving |-> data.isMoving]

\* the serverGameState listener at Date.now() = time, for a message with the
\* state of the opponent's player: data is that state with the message's
\* serverTime.  The percentiles p50, p95, p99 are computed once 50 inter-arrival
\* times are held, which is beyond the bounds of the specifications.
handleOpponentState(g, data, time) ==
    LET times == Append(g.lastUpdateTimes, time)
        kept  == IF Len(times) > UpdateTimesCap THEN Tail(times) ELSE times
        arrivals == IF Len(kept) >= 2
                    THEN Append(g.interArrivalTimes, kept[Len(kept)] - kept[Len(kept) - 1])
                    ELSE g.interArrivalTimes
        pushed == [g EXCEPT
            !.serverTimeOffset = (@ * 9 + (time - data.serverTime) * 100) \div 10,
            !.opponentSnapshots = Trimmed(Append(@, SnapshotOf(data))),
            !.lastUpdateTimes = kept,
            !.interArrivalTimes = IF Len(arrivals) > InterArrivalCap
                                  THEN Tail(arrivals) ELSE arrivals]
    IN  updateAdaptiveInterpolationDelay(pushed, time)

\* serverNow - this.interpolationDelay at Date.now() = time, in hundredths of a ms
RenderTime(g, time) == time * 100 - g.serverTimeOffset - g.interpolationDelay

\* the snapshots i and i + 1 bracket the render time r
Brackets(snapshots, i, r) ==
    /\ snapshots[i].timestamp * 100 <= r
    /\ snapshots[i + 1].timestamp * 100 >= r

\* the index of snapshot0: the first bracketing pair, 0 if there is none
FirstBracket(snapshots, r) ==
    LET found == {i \in 1..(Len(snapshots) - 1) : Brackets(snapshots, i, r)}
    IN  IF found = {} THEN 0 ELSE CHOOSE i \in found : \A j \in found : i <= j

\* an interpolation that starts from the second position
LerpBackwards(a, b, num, den) == b + Sign(a - b) * ((Abs(a - b) * num) \div den)

\* a + (b - a) * (num / den) for 0 <= num <= den, den > 0
Lerp(a, b, num, den) == a + Sign(b - a) * ((Abs(b - a) * num) \div den)

\* interpolateOpponentPosition(), a bracketing pair s0, s1 found
interpolated(g, s0, s1, r) ==
    LET timeDiff == (s1.timestamp - s0.timestamp) * 100
        t == IF timeDiff > 0 THEN r - s0.timestamp * 100 ELSE 0
        clampedT == Max(0, Min(timeDiff, t))
        dirX == s1.x - s0.x
        dirZ == s1.z - s0.z
    IN  [g EXCEPT
            !.playerOpponent.x = IF timeDiff > 0 THEN Lerp(s0.x, s1.x, clampedT, timeDiff)
                                 ELSE s0.x,
            !.playerOpponent.z = IF timeDiff > 0 THEN Lerp(s0.z, s1.z, clampedT, timeDiff)
                                 ELSE s0.z,
            !.playerOpponent.facing = IF Abs(dirX) > 1 \/ Abs(dirZ) > 1
                                      THEN (IF dirX > 0 THEN 1 ELSE -1) ELSE @,
            !.playerOpponent.targetX = s1.targetX,
            !.playerOpponent.targetZ = s1.targetZ,
            !.playerOpponent.isMoving = s1.isMoving]

\* interpolateOpponentPosition(), no bracketing pair: extrapolation from the
\* last two snapshots
extrapolated(g, time) ==
    LET snapshots == g.opponentSnapshots
        latest == snapshots[Len(snapshots)]
        prev == snapshots[Len(snapshots) - 1]
        dt == latest.timestamp - prev.timestamp
        serverNow == time * 100 - g.serverTimeOffset
        extrapolationTime == Min(ExtrapolationMax, serverNow - latest.timestamp * 100)
        dx == latest.x - prev.x
        dz == latest.z - prev.z
        moving == dt > 0 /\ dt < ExtrapolationGap
    IN  [g EXCEPT
            !.playerOpponent.x = IF moving
                                 THEN latest.x + TruncDiv(dx * extrapolationTime, dt * 100)
                                 ELSE latest.x,
            !.playerOpponent.z = IF moving
                                 THEN latest.z + TruncDiv(dz * extrapolationTime, dt * 100)
                                 ELSE latest.z,
            !.playerOpponent.facing = IF moving /\ (10 * Abs(dx) > dt \/ 10 * Abs(dz) > dt)
                                      THEN (IF dx > 0 THEN 1 ELSE -1) ELSE @,
            !.playerOpponent.targetX = latest.targetX,
            !.playerOpponent.targetZ = latest.targetZ,
            !.playerOpponent.isMoving = latest.isMoving]

\* interpolateOpponentPosition() at Date.now() = time
interpolateOpponentPosition(g, time) ==
    IF Len(g.opponentSnapshots) < 2 THEN g
    ELSE LET r == RenderTime(g, time)
             i == FirstBracket(g.opponentSnapshots, r)
         IN  IF i = 0 THEN extrapolated(g, time)
             ELSE interpolated(g, g.opponentSnapshots[i], g.opponentSnapshots[i + 1], r)

-----------------------------------------------------------------------------
(* The state of the parts a specification does not exercise *)

\* NetClient constructor: no game, no reconciler yet
SessInit ==
    /\ gameSet = FALSE
    /\ playerSelf = NoPlayer
    /\ reconciler = ReconcilerInit
    /\ messagesReceived = 0
    /\ messagesSent = 0
    /\ moveMessage = NoMessage

\* no delta function was called
CodecIdle ==
    /\ current = NotComputed
    /\ previous = NotComputed
    /\ delta = NotComputed
    /\ applied = NotComputed
    /\ codecStep = "init"

\* a TimeSync that was never started, no timer
SyncIdle ==
    /\ timeSync = TimeSyncInit
    /\ timers = {}
    /\ pongAccepted = -1

\* no validate function was called
ValIdle ==
    /\ valData = NotComputed
    /\ valCalled = "none"
    /\ valResult = FALSE

\* quantizePosition was not called
QuantIdle ==
    /\ quantRange = "coordinate"
    /\ quantIn = 0
    /\ quantOnce = 0
    /\ quantTwice = 0
    /\ quantStep = 0

\* a NetClient just constructed, on a socket that is connecting
ConnIdle ==
    /\ client = NetClientInit(0)
    /\ sock = "opening"
    /\ lastKnownState = LastKnownStateInit
    /\ rejoinRequests = <<>>
    /\ destroyed = FALSE
    /\ recoverable = FALSE
    /\ connectedAt = -1
    /\ lateConnect = FALSE

\* a game just constructed: no snapshot of the remote player
RemoteIdle == remote = RemoteInit(0)

-----------------------------------------------------------------------------
(* Specification SpecInputBuffer: every sequence of addInput, acknowledge    *)
(* and clear calls, with the history of the calls.  MaxInputs keeps the      *)
(* buffer far below the cap; the cap is exercised by SpecInputBufferCap.     *)

HistInit ==
    /\ call = NoCall
    /\ issued = <<>>
    /\ base = <<>>
    /\ baseCursor = 0
    /\ ackMax = -1
    /\ returned = <<>>
    /\ returnedAt = <<>>
    /\ returnedLive = FALSE
    /\ returnedTouched = FALSE

returnedVars == <<returned, returnedAt, returnedLive, returnedTouched>>

InitInputBuffer ==
    /\ InputBufferInit
    /\ now = 0
    /\ HistInit
    /\ SessInit
    /\ CodecIdle
    /\ QuantIdle
    /\ ValIdle
    /\ SyncIdle
    /\ ConnIdle
    /\ RemoteIdle

\* a caller calls addInput(input)
AddInput(input) ==
    /\ nextSeq <= MaxInputs
    /\ addInput(input)
    /\ call' = [op |-> "addInput", arg |-> 0, ret |-> addInputResult]
    /\ issued' = Append(issued, addInputResult)
    /\ base' = buffer'
    /\ baseCursor' = lastProcessedSeq'
    /\ ackMax' = -1
    /\ UNCHANGED <<now, returnedVars>>
    /\ UNCHANGED outsideInputBuffer

\* a caller calls acknowledge(cursor)
Acknowledge(cursor) ==
    /\ acknowledge(cursor)
    /\ call' = [op |-> "acknowledge", arg |-> cursor, ret |-> 0]
    /\ ackMax' = Max(ackMax, cursor)
    /\ UNCHANGED <<now, issued, base, baseCursor, returnedVars>>
    /\ UNCHANGED outsideInputBuffer

\* a caller calls clear()
Clear ==
    /\ clear
    /\ call' = [op |-> "clear", arg |-> 0, ret |-> 0]
    /\ base' = buffer'
    /\ baseCursor' = lastProcessedSeq'
    /\ ackMax' = -1
    /\ UNCHANGED <<now, issued, returnedVars>>
    /\ UNCHANGED outsideInputBuffer

NextInputBuffer ==
    \/ AddInput(OneInput)
    \/ \E cursor \in Cursors : Acknowledge(cursor)
    \/ Clear

SpecInputBuffer == InitInputBuffer /\ [][NextInputBuffer]_vars

-----------------------------------------------------------------------------
(* Specification SpecSnapshot: the array getUnacknowledgedInputs returns,    *)
(* kept by its caller while the buffer goes on changing.  push() and shift() *)
(* change the array this.buffer refers to in place; filter() and `= []` make *)
(* this.buffer refer to a new array.                                         *)

SnapAddInput(input) ==
    /\ nextSeq <= MaxSnapInputs
    /\ addInput(input)
    /\ call' = [op |-> "addInput", arg |-> 0, ret |-> addInputResult]
    /\ returned' = IF returnedLive THEN buffer' ELSE returned
    /\ UNCHANGED <<now, issued, base, baseCursor, ackMax, returnedAt, returnedLive, returnedTouched>>
    /\ UNCHANGED outsideInputBuffer

SnapAcknowledge(cursor) ==
    /\ acknowledge(cursor)
    /\ call' = [op |-> "acknowledge", arg |-> cursor, ret |-> 0]
    /\ returnedLive' = (returnedLive /\ IsStale(cursor))
    /\ UNCHANGED <<now, issued, base, baseCursor, ackMax, returned, returnedAt, returnedTouched>>
    /\ UNCHANGED outsideInputBuffer

SnapClear ==
    /\ clear
    /\ call' = [op |-> "clear", arg |-> 0, ret |-> 0]
    /\ returnedLive' = FALSE
    /\ UNCHANGED <<now, issued, base, baseCursor, ackMax, returned, returnedAt, returnedTouched>>
    /\ UNCHANGED outsideInputBuffer

\* a caller calls getUnacknowledgedInputs() and keeps the array it returns
GetUnacknowledgedInputs ==
    /\ returned' = getUnacknowledgedInputs.list
    /\ returnedAt' = getUnacknowledgedInputs.list
    /\ returnedLive' = getUnacknowledgedInputs.live
    /\ returnedTouched' = FALSE
    /\ call' = [op |-> "getUnacknowledgedInputs", arg |-> 0, ret |-> 0]
    /\ UNCHANGED <<bufVars, now, issued, base, baseCursor, ackMax>>
    /\ UNCHANGED outsideInputBuffer

\* the caller modifies the array it was given: returned.pop()
ModifyReturned ==
    /\ returned # <<>>
    /\ returned' = SubSeq(returned, 1, Len(returned) - 1)
    /\ returnedTouched' = TRUE
    /\ buffer' = IF returnedLive THEN returned' ELSE buffer
    /\ call' = [op |-> "modifyReturned", arg |-> 0, ret |-> 0]
    /\ UNCHANGED <<nextSeq, lastProcessedSeq, totalInputs, totalAcked, now,
                   issued, base, baseCursor, ackMax, returnedAt, returnedLive>>
    /\ UNCHANGED outsideInputBuffer

\* time passes
Tick ==
    /\ now < MaxTime
    /\ now' = now + 1
    /\ UNCHANGED <<bufVars, histVars>>
    /\ UNCHANGED outsideInputBuffer

NextSnapshot ==
    \/ \E input \in Inputs : SnapAddInput(input)
    \/ \E cursor \in 0..MaxSnapInputs : SnapAcknowledge(cursor)
    \/ SnapClear
    \/ GetUnacknowledgedInputs
    \/ ModifyReturned
    \/ Tick

SpecSnapshot == InitInputBuffer /\ [][NextSnapshot]_vars

-----------------------------------------------------------------------------
(* Specification SpecInputBufferCap: the InputBuffer driven past its cap.    *)

CapCursors == {1, BufferCap \div 2, BufferCap, BufferCap + 1, BufferCap + CapExtra + 1}

InCapWindow == nextSeq <= CapWindow + 1 \/ nextSeq > BufferCap - CapWindow

CapAddInput ==
    /\ nextSeq <= BufferCap + CapExtra
    /\ addInput(OneInput)
    /\ call' = [op |-> "addInput", arg |-> 0, ret |-> addInputResult]
    /\ issued' = Append(issued, addInputResult)
    /\ UNCHANGED <<now, base, baseCursor, ackMax, returnedVars>>
    /\ UNCHANGED outsideInputBuffer

CapAcknowledge(cursor) ==
    /\ InCapWindow
    /\ acknowledge(cursor)
    /\ call' = [op |-> "acknowledge", arg |-> cursor, ret |-> 0]
    /\ UNCHANGED <<now, issued, base, baseCursor, ackMax, returnedVars>>
    /\ UNCHANGED outsideInputBuffer

CapClear ==
    /\ InCapWindow
    /\ clear
    /\ call' = [op |-> "clear", arg |-> 0, ret |-> 0]
    /\ UNCHANGED <<now, issued, base, baseCursor, ackMax, returnedVars>>
    /\ UNCHANGED outsideInputBuffer

NextInputBufferCap ==
    \/ CapAddInput
    \/ \E cursor \in CapCursors : CapAcknowledge(cursor)
    \/ CapClear

SpecInputBufferCap == InitInputBuffer /\ [][NextInputBufferCap]_vars

-----------------------------------------------------------------------------
(* Specification SpecSession: a NetClient with its InputBuffer and, once     *)
(* setGame was called, its Reconciler.  The collaborator sends moves, the    *)
(* server's move acks arrive in any order, any number of times, and the      *)
(* frame loop calls updateSmoothing as time passes.                          *)

MaxMoves == 2          \* sendMove calls
MaxAcks  == 2          \* moveAck messages handled
MaxSmoothingSpans == 1 \* Date.now() goes up to MaxSmoothingSpans * smoothingDuration
MaxRejoins == 1        \* rejoin calls

\* the room and the player of a rejoin call
RoomCodes == {"AB12"}
PlayerIds == {1}

enableReconciliation == TRUE   \* options.enableReconciliation: true

\* game.playerSelf when setGame is called: a player as the game creates it, or null
StartPlayers == {[x |-> 0, z |-> 0, health |-> 5, isMoving |-> FALSE], NoPlayer}

\* the positions the server reports in a moveAck: the start, one step of MaxMove
\* towards OneInput, a far place
ServerPositions == {[x |-> 0, z |-> 0], [x |-> 390, z |-> 0], [x |-> 12000, z |-> 0]}

\* moveAck messages; actionId 0 stands for an ack without (a truthy) actionId
MoveAcks ==
    {[actionId |-> id, x |-> pos.x, z |-> pos.z, targetX |-> 1000, targetZ |-> 0] :
        id \in 0..(MaxMoves + 1), pos \in ServerPositions}

\* what time may pass in one step
TimeSteps == {smoothingDuration \div 2, smoothingDuration}

outsideSession == <<issued, base, baseCursor, ackMax, returnedVars, codecVars, quantVars, valVars,
                    syncVars, connVars, remoteVars>>

InitSession ==
    /\ InputBufferInit
    /\ now = 0
    /\ HistInit
    /\ SessInit
    /\ CodecIdle
    /\ QuantIdle
    /\ ValIdle
    /\ SyncIdle
    /\ ConnIdle
    /\ RemoteIdle

\* setGame(game): this.reconciler = new Reconciler(game)
SetGame(player) ==
    /\ ~gameSet
    /\ gameSet' = TRUE
    /\ playerSelf' = player
    /\ reconciler' = ReconcilerInit
    /\ call' = [op |-> "setGame", arg |-> 0, ret |-> 0]
    /\ UNCHANGED <<bufVars, now, messagesReceived, messagesSent, moveMessage, outsideSession>>

\* the application calls sendMove(roomCode, targetX, targetZ); the message is
\* stamped with the sequence addInput returned
SendMove(input) ==
    /\ nextSeq <= MaxMoves
    /\ addInput(input)
    /\ \E roomCode \in RoomCodes :
        moveMessage' = playerMove(roomCode, input, addInputResult, now)
    /\ messagesSent' = messagesSent + 1
    /\ call' = [op |-> "sendMove", arg |-> 0, ret |-> addInputResult]
    /\ UNCHANGED <<now, gameSet, playerSelf, reconciler, messagesReceived, outsideSession>>

\* the sequence numbers of a list of buffered inputs, in the order of the list
SeqList(list) == [i \in 1..Len(list) |-> list[i].seq]

\* the list of the buffer as it was before acknowledge ran
UnackedBeforeAck == getUnacknowledgedInputs.list

\* const unackedInputs = this.inputBuffer.getUnacknowledgedInputs(), after acknowledge
UnackedAtReconcile == (getUnacknowledgedInputs.list)'

\* what the reconcile call of a move ack started from: the position predicted
\* before the call, the inputs it replayed, the position after the replay, the
\* correction flag before
ReconcileSeen(player, rec, serverState, unackedInputs) ==
    IF player = NoPlayer
    THEN [ran |-> FALSE]
    ELSE [ran |-> TRUE,
          inputs |-> SeqList(unackedInputs),
          predicted |-> PositionOf(player),
          replayed |-> PositionOf(AfterReplay(player, serverState, unackedInputs)),
          wasCorrecting |-> rec.correctionInProgress]

\* _handleMoveAck(data)
HandleMoveAck(data) ==
    /\ messagesReceived < MaxAcks
    /\ messagesReceived' = messagesReceived + 1
    /\ IF data.actionId # 0 THEN acknowledge(data.actionId) ELSE UNCHANGED bufVars
    /\ IF enableReconciliation /\ gameSet
       THEN LET serverState == [x |-> data.x, z |-> data.z,
                                targetX |-> data.targetX, targetZ |-> data.targetZ]
                unackedInputs == UnackedAtReconcile
                after == reconcile(playerSelf, reconciler, serverState, unackedInputs, now)
            IN  /\ playerSelf' = after.player
                /\ reconciler' = after.reconciler
                /\ call' = Merge([op |-> "moveAck", arg |-> data.actionId, ret |-> 0],
                                 ReconcileSeen(playerSelf, reconciler, serverState,
                                               unackedInputs))
       ELSE /\ UNCHANGED <<playerSelf, reconciler>>
            /\ call' = [op |-> "moveAck", arg |-> data.actionId, ret |-> 0, ran |-> FALSE]
    /\ UNCHANGED <<now, gameSet, messagesSent, moveMessage, outsideSession>>

\* the frame loop calls reconciler.updateSmoothing()
UpdateSmoothing ==
    /\ gameSet
    /\ playerSelf' = updateSmoothing(playerSelf, reconciler, now).player
    /\ reconciler' = updateSmoothing(playerSelf, reconciler, now).reconciler
    /\ call' = [op |-> "updateSmoothing", arg |-> 0, ret |-> 0]
    /\ UNCHANGED <<bufVars, now, gameSet, messagesReceived, messagesSent, moveMessage, outsideSession>>

\* the application calls rejoin(roomCode, playerId)
Rejoin ==
    /\ Len(rejoinRequests) < MaxRejoins
    /\ \E roomCode \in RoomCodes, playerId \in PlayerIds :
        /\ rejoin(roomCode, playerId)
        /\ call' = [op |-> "rejoin", arg |-> playerId, ret |-> 0]
    /\ UNCHANGED <<now, sessVars, issued, base, baseCursor, ackMax, returnedVars,
                   codecVars, quantVars, valVars, syncVars, connOther, remoteVars>>

\* time passes
SessionTick(d) ==
    /\ now + d <= MaxSmoothingSpans * smoothingDuration
    /\ now' = now + d
    /\ call' = [op |-> "tick", arg |-> 0, ret |-> 0]
    /\ UNCHANGED <<bufVars, sessVars, outsideSession>>

\* The reconciler at its thresholds: the server reports positions whose distance
\* from the start is 0, the visible threshold, a step, the teleport threshold, more.
MaxThresholdMoves == 1   \* moves acknowledged by the acks of ThresholdAcks

ThresholdPositions == {[x |-> 0, z |-> 0], [x |-> VisibleError, z |-> 0], [x |-> MaxMove, z |-> 0],
                       [x |-> TeleportError, z |-> 0], [x |-> 12000, z |-> 0]}

ThresholdAcks ==
    {[actionId |-> id, x |-> pos.x, z |-> pos.z, targetX |-> 1000, targetZ |-> 0] :
        id \in 0..MaxThresholdMoves, pos \in ThresholdPositions}

NextReconcile ==
    \/ \E player \in StartPlayers : SetGame(player)
    \/ \E input \in Inputs : SendMove(input)
    \/ \E data \in ThresholdAcks : HandleMoveAck(data)
    \/ UpdateSmoothing
    \/ \E d \in TimeSteps : SessionTick(d)

SpecReconcile == InitSession /\ [][NextReconcile]_vars

\* The frame loop: updateSmoothing is called again and again while time advances.
\* A move ack is handled only while a whole smoothing duration is left before the
\* end of the time the specification covers.
MaxCorrectionSpans == 2   \* Date.now() goes up to MaxCorrectionSpans * smoothingDuration

SmoothingAcks == {data \in ThresholdAcks : data.actionId = 0 /\ data.x \in {0, MaxMove}}

TimelyMoveAck(data) ==
    /\ now + smoothingDuration <= MaxCorrectionSpans * smoothingDuration
    /\ HandleMoveAck(data)

SmoothingTick(d) ==
    /\ now + d <= MaxCorrectionSpans * smoothingDuration
    /\ now' = now + d
    /\ call' = [op |-> "tick", arg |-> 0, ret |-> 0]
    /\ UNCHANGED <<bufVars, sessVars, outsideSession>>

NextSmoothing ==
    \/ \E player \in StartPlayers : SetGame(player)
    \/ \E data \in SmoothingAcks : TimelyMoveAck(data)
    \/ UpdateSmoothing
    \/ \E d \in TimeSteps : SmoothingTick(d)

SpecSmoothing ==
    /\ InitSession
    /\ [][NextSmoothing]_vars
    /\ WF_vars(UpdateSmoothing)
    /\ WF_vars(\E d \in TimeSteps : SmoothingTick(d))

\* The replay: moves, rejoins and move acks with every cursor, the cursors beyond
\* the moves sent included; time stands still.
ReplayAcks == {data \in MoveAcks : data.x \in {0, MaxMove}}

NextReplay ==
    \/ \E player \in StartPlayers : SetGame(player)
    \/ \E input \in Inputs : SendMove(input)
    \/ \E data \in ReplayAcks : HandleMoveAck(data)
    \/ Rejoin

SpecReplay == InitSession /\ [][NextReplay]_vars

\* One movement step from a place towards a target, made by the replay and by
\* the frame loop of the game.
StepPlayers ==
    {[x |-> x, z |-> z, health |-> 5, isMoving |-> FALSE] : x \in {0, 50, 100, 500, 1000},
                                                             z \in {0, 300}}

StepTargets ==
    {[targetX |-> 1000, targetZ |-> 0], [targetX |-> 0, targetZ |-> 2000],
     [targetX |-> 100, targetZ |-> 0], [targetX |-> 0, targetZ |-> 0],
     [targetX |-> 500, targetZ |-> 300]}

InitMovementStep ==
    /\ InputBufferInit
    /\ now = 0
    /\ HistInit
    /\ gameSet = TRUE
    /\ playerSelf \in StepPlayers
    /\ reconciler = ReconcilerInit
    /\ messagesReceived = 0
    /\ messagesSent = 0
    /\ moveMessage = NoMessage
    /\ CodecIdle
    /\ QuantIdle
    /\ ValIdle
    /\ SyncIdle
    /\ ConnIdle
    /\ RemoteIdle

\* the reconciler replays one input on the player
ReplayInput(input) ==
    /\ call = NoCall
    /\ playerSelf' = applyInput(playerSelf, input)
    /\ call' = [op |-> "applyInput", arg |-> 0, ret |-> 0, input |-> input,
                from |-> PositionOf(playerSelf)]
    /\ UNCHANGED <<bufVars, now, gameSet, reconciler, messagesReceived, messagesSent,
                   moveMessage, outsideSession>>

\* the player is given the target and the frame loop moves it for one frame
SimulateStep(input) ==
    /\ call = NoCall
    /\ playerSelf' = updatePlayerMovement(Aimed(playerSelf, input))
    /\ call' = [op |-> "updatePlayerMovement", arg |-> 0, ret |-> 0, input |-> input,
                from |-> PositionOf(playerSelf)]
    /\ UNCHANGED <<bufVars, now, gameSet, reconciler, messagesReceived, messagesSent,
                   moveMessage, outsideSession>>

NextMovementStep ==
    \/ \E input \in StepTargets : ReplayInput(input)
    \/ \E input \in StepTargets : SimulateStep(input)

SpecMovementStep == InitMovementStep /\ [][NextMovementStep]_vars

NextSession ==
    \/ \E player \in StartPlayers : SetGame(player)
    \/ \E input \in Inputs : SendMove(input)
    \/ \E data \in MoveAcks : HandleMoveAck(data)
    \/ UpdateSmoothing
    \/ Rejoin
    \/ \E d \in TimeSteps : SessionTick(d)

SpecSession == InitSession /\ [][NextSession]_vars

-----------------------------------------------------------------------------
(* Specification SpecCodec: the delta functions of NetProtocol applied to    *)
(* every pair of states of one entity, drawn from the sets below.            *)

\* Player states.  The coordinates hold values quantized to 0.01 (0, 0.01, 0.03,
\* 0.04) and a value that is not (0.024).
PlayerStates ==
    [playerId : {1}, x : {0, 10, 24, 30, 40}, z : {0, 10},
     health : {5, 4}, isDead : BOOLEAN, isMoving : BOOLEAN]

\* Knife states
KnifeStates == [knifeId : {7}, x : {0, 100, 300, 340, 400}, z : {0, 100}]

outsideCodec == <<bufVars, now, histVars, sessVars, quantVars, valVars, syncVars, connVars, remoteVars>>

InitCodec ==
    /\ \/ current \in PlayerStates /\ previous \in PlayerStates \cup {Absent}
       \/ current \in KnifeStates /\ previous \in KnifeStates \cup {Absent}
    /\ delta = NotComputed
    /\ applied = NotComputed
    /\ codecStep = "init"
    /\ InputBufferInit
    /\ now = 0
    /\ HistInit
    /\ SessInit
    /\ QuantIdle
    /\ ValIdle
    /\ SyncIdle
    /\ ConnIdle
    /\ RemoteIdle

IsPlayer(state) == "playerId" \in DOMAIN state

\* the server computes delta = calculatePlayerDelta(current, previous)
CalculatePlayerDelta ==
    /\ codecStep = "init"
    /\ IsPlayer(current)
    /\ delta' = calculatePlayerDelta(current, previous)
    /\ codecStep' = "delta"
    /\ UNCHANGED <<current, previous, applied, outsideCodec>>

\* the server computes delta = calculateKnifeDelta(current, previous)
CalculateKnifeDelta ==
    /\ codecStep = "init"
    /\ ~IsPlayer(current)
    /\ delta' = calculateKnifeDelta(current, previous)
    /\ codecStep' = "delta"
    /\ UNCHANGED <<current, previous, applied, outsideCodec>>

\* the receiver computes applied = applyDelta(delta, previous)
ApplyDelta ==
    /\ codecStep = "delta"
    /\ applied' = applyDelta(delta, previous)
    /\ codecStep' = "applied"
    /\ UNCHANGED <<current, previous, delta, outsideCodec>>

NextCodec ==
    \/ CalculatePlayerDelta
    \/ CalculateKnifeDelta
    \/ ApplyDelta

SpecCodec == InitCodec /\ [][NextCodec]_vars

-----------------------------------------------------------------------------
(* Specification SpecQuantize: quantizePosition applied once and again, to   *)
(* coordinates around zero and to doubles just above 2^45.                   *)

MaxCoordinate == 1200  \* coordinates range over -MaxCoordinate..MaxCoordinate thousandths
MaxHighOffset == 39    \* doubles 2^45 + k/128 with k in 0..MaxHighOffset

\* the coordinates, without those ending in 5 (see quantizePosition)
Coordinates == {v \in (-MaxCoordinate)..MaxCoordinate : v % 10 # 5}

HighOffsets == 0..MaxHighOffset

outsideQuantize == <<bufVars, now, histVars, sessVars, codecVars, valVars, syncVars, connVars, remoteVars>>

InitQuantize ==
    /\ \/ quantRange = "coordinate" /\ quantIn \in Coordinates
       \/ quantRange = "high" /\ quantIn \in HighOffsets
    /\ quantOnce = 0
    /\ quantTwice = 0
    /\ quantStep = 0
    /\ InputBufferInit
    /\ now = 0
    /\ HistInit
    /\ SessInit
    /\ CodecIdle
    /\ ValIdle
    /\ SyncIdle
    /\ ConnIdle
    /\ RemoteIdle

\* quantizePosition in the range of the argument
Quantized(range, value) ==
    IF range = "coordinate" THEN quantizePosition(value) ELSE quantizePositionHigh(value)

\* quantOnce = quantizePosition(quantIn)
QuantizeOnce ==
    /\ quantStep = 0
    /\ quantOnce' = Quantized(quantRange, quantIn)
    /\ quantStep' = 1
    /\ UNCHANGED <<quantRange, quantIn, quantTwice, outsideQuantize>>

\* quantTwice = quantizePosition(quantOnce)
QuantizeAgain ==
    /\ quantStep = 1
    /\ quantTwice' = Quantized(quantRange, quantOnce)
    /\ quantStep' = 2
    /\ UNCHANGED <<quantRange, quantIn, quantOnce, outsideQuantize>>

NextQuantize ==
    \/ QuantizeOnce
    \/ QuantizeAgain

SpecQuantize == InitQuantize /\ [][NextQuantize]_vars

-----------------------------------------------------------------------------
(* Specification SpecValidate: the validate functions on every payload whose *)
(* targetX and targetZ are drawn from the values below.                      *)

MaxBeyond == 1   \* finite coordinates go up to MaxBeyond thousandths beyond the bound

\* numbers in and out of the bound, the numbers that are not finite, and values
\* that are no numbers (a missing field is undefined)
PayloadValues ==
    {Finite(v) : v \in {0, 1000, -1000}
                        \cup (CoordinateBound - 1)..(CoordinateBound + MaxBeyond)
                        \cup (-CoordinateBound - MaxBeyond)..(1 - CoordinateBound)}
        \cup {NaN, PlusInfinity, MinusInfinity}
        \cup {NotANumber(type) : type \in {"string", "undefined", "object"}}

Payloads == [targetX : PayloadValues, targetZ : PayloadValues]

outsideValidate == <<bufVars, now, histVars, sessVars, codecVars, quantVars, syncVars, connVars, remoteVars>>

InitValidate ==
    /\ valData \in Payloads
    /\ valCalled = "none"
    /\ valResult = FALSE
    /\ InputBufferInit
    /\ now = 0
    /\ HistInit
    /\ SessInit
    /\ CodecIdle
    /\ QuantIdle
    /\ SyncIdle
    /\ ConnIdle
    /\ RemoteIdle

\* valResult = validateMoveCommand(valData)
ValidateMoveCommand ==
    /\ valCalled = "none"
    /\ valCalled' = "move"
    /\ valResult' = validateMoveCommand(valData)
    /\ UNCHANGED <<valData, outsideValidate>>

\* valResult = validateKnifeThrowCommand(valData)
ValidateKnifeThrowCommand ==
    /\ valCalled = "none"
    /\ valCalled' = "knifeThrow"
    /\ valResult' = validateKnifeThrowCommand(valData)
    /\ UNCHANGED <<valData, outsideValidate>>

NextValidate ==
    \/ ValidateMoveCommand
    \/ ValidateKnifeThrowCommand

SpecValidate == InitValidate /\ [][NextValidate]_vars

-----------------------------------------------------------------------------
(* Specification SpecTimeSync: a TimeSync that its owner starts and stops,   *)
(* its interval timer, and the server's responses, which arrive at any time, *)
(* in any order, any number of times, with any sequence.  Date.now() takes   *)
(* the values 0, 100, 1000, 1100, 2000, ...: things happen on the second and *)
(* 100 ms later.  A timer's callback runs before time moves on.              *)

MaxPings   == 2   \* sendPing calls
MaxSeconds == 3   \* Date.now() goes up to MaxSeconds * 1000

\* the serverTime of a response
ServerTimes == {1050}

\* timeSyncPong messages
Pongs(serverTimes) == [seq : 0..(MaxPings + 1), serverTime : serverTimes]

outsideTimeSync == <<bufVars, issued, base, baseCursor, ackMax, returnedVars,
                     sessVars, codecVars, quantVars, valVars, connVars, remoteVars>>

InitTimeSync ==
    /\ timeSync = TimeSyncInit
    /\ timers = {}
    /\ pongAccepted = -1
    /\ InputBufferInit
    /\ now = 0
    /\ HistInit
    /\ SessInit
    /\ CodecIdle
    /\ QuantIdle
    /\ ValIdle
    /\ ConnIdle
    /\ RemoteIdle

\* the owner calls start()
SyncStart ==
    /\ timeSync.nextPingSeq <= MaxPings
    /\ timeSync' = start(timeSync, timers, now).timeSync
    /\ timers' = start(timeSync, timers, now).timers
    /\ pongAccepted' = -1
    /\ call' = [op |-> "start", arg |-> 0, ret |-> 0]
    /\ UNCHANGED <<now, outsideTimeSync>>

\* the owner calls stop()
SyncStop ==
    /\ timeSync' = stop(timeSync, timers).timeSync
    /\ timers' = stop(timeSync, timers).timers
    /\ pongAccepted' = -1
    /\ call' = [op |-> "stop", arg |-> 0, ret |-> 0]
    /\ UNCHANGED <<now, outsideTimeSync>>

\* the interval of start() fires: this.sendPing()
PingTimerFires ==
    /\ timeSync.nextPingSeq <= MaxPings
    /\ \E t \in timers :
        /\ t.kind = "ping"
        /\ Due(t, now)
        /\ timeSync' = sendPing(timeSync, now)
        /\ timers' = (timers \ {t}) \cup {[t EXCEPT !.due = @ + PingPeriod]}
    /\ pongAccepted' = -1
    /\ call' = [op |-> "pingTimer", arg |-> 0, ret |-> 0]
    /\ UNCHANGED <<now, outsideTimeSync>>

\* a timeSyncPong message arrives: handlePong(data)
HandlePong(data) ==
    /\ timeSync' = handlePong(timeSync, data, now)
    /\ pongAccepted' = AcceptedAge(timeSync, data, now)
    /\ call' = [op |-> "handlePong", arg |-> data.seq, ret |-> data.serverTime]
    /\ UNCHANGED <<now, timers, outsideTimeSync>>

\* a timeSyncPong message arrives at a NetClient: both listeners run
OnTimeSyncPong(data) ==
    /\ timeSync' = onTimeSyncPong(timeSync, data, now)
    /\ pongAccepted' = AcceptedAge(timeSync, data, now)
    /\ call' = [op |-> "handlePong", arg |-> data.seq, ret |-> data.serverTime]
    /\ UNCHANGED <<now, timers, outsideTimeSync>>

\* time passes, by d ms, up to limit
SyncTick(d, limit) ==
    /\ \A t \in timers : ~Due(t, now)
    /\ now + d <= limit
    /\ now' = now + d
    /\ pongAccepted' = -1
    /\ call' = [op |-> "tick", arg |-> 0, ret |-> 0]
    /\ UNCHANGED <<timeSync, timers, outsideTimeSync>>

NextTimeSync ==
    \/ SyncStart
    \/ SyncStop
    \/ PingTimerFires
    \/ \E data \in Pongs(ServerTimes) : HandlePong(data)
    \/ \E d \in {IF now % 1000 = 0 THEN 100 ELSE 900} : SyncTick(d, MaxSeconds * 1000)

SpecTimeSync == InitTimeSync /\ [][NextTimeSync]_vars

-----------------------------------------------------------------------------
(* Specification SpecPongListeners: the TimeSync of a NetClient, whose       *)
(* socket carries two listeners of the response event.  Time as in           *)
(* SpecTimeSync.                                                             *)

NextPongListeners ==
    \/ SyncStart
    \/ SyncStop
    \/ PingTimerFires
    \/ \E data \in Pongs(ServerTimes) : OnTimeSyncPong(data)
    \/ \E d \in {IF now % 1000 = 0 THEN 100 ELSE 900} : SyncTick(d, MaxSeconds * 1000)

SpecPongListeners == InitTimeSync /\ [][NextPongListeners]_vars

-----------------------------------------------------------------------------
(* Specification SpecProbeAging: the same TimeSync over a longer time, in    *)
(* steps of 1 s, so that probes grow older than the staleness window.  Time  *)
(* goes on and a due timer's callback runs (weak fairness).                  *)

MaxAgingSeconds == 7   \* Date.now() goes up to MaxAgingSeconds * 1000

AgingTick == SyncTick(1000, MaxAgingSeconds * 1000)

NextProbeAging ==
    \/ SyncStart
    \/ SyncStop
    \/ PingTimerFires
    \/ \E data \in Pongs(ServerTimes) : HandlePong(data)
    \/ AgingTick

SpecProbeAging ==
    /\ InitTimeSync
    /\ [][NextProbeAging]_vars
    /\ WF_vars(AgingTick)
    /\ WF_vars(PingTimerFires)

-----------------------------------------------------------------------------
(* Specification SpecConnection: a NetClient on its socket.  The transport   *)
(* answers a connection being opened by 'connect' or 'connect_error', and    *)
(* loses an open connection for any reason, at any time; the server's state  *)
(* updates arrive while the connection is open; the application sends        *)
(* moves, calls rejoin and destroy; the timers' callbacks run when due,      *)
(* before time moves on.  Date.now() goes in steps of 1 s.                   *)

MaxLifeSeconds == 16   \* Date.now() goes up to MaxLifeSeconds * 1000
MaxUpdates == 2        \* serverGameState messages handled
MaxProbes == 3         \* sendPing calls

\* entities of the server's state updates: full ones and deltas
FullPlayer  == [playerId |-> 1, x |-> 0, z |-> 0, health |-> 0, isDead |-> TRUE]
PlayerDelta == [playerId |-> 1, x |-> 1000]
FullKnife   == [knifeId |-> 1, x |-> 0, z |-> 0]
KnifeDelta  == [knifeId |-> 1, x |-> 2000]
\* the player as the delta encoder sends it when it holds no previous state of it:
\* the whole state, tagged full; the respawned player has no isDead property
RespawnedPlayer == [playerId |-> 1, x |-> 2000, z |-> 0, health |-> 5, full |-> TRUE]

\* serverGameState messages: a full state, a delta, a delta that removes a knife,
\* a delta with an entity tagged full
StateUpdates ==
    <<[full |-> TRUE, players |-> <<FullPlayer>>, knives |-> <<FullKnife>>],
      [delta |-> TRUE, players |-> <<PlayerDelta>>, knives |-> <<KnifeDelta>>],
      [delta |-> TRUE, removedKnives |-> <<1>>],
      [delta |-> TRUE, players |-> <<RespawnedPlayer>>]>>

\* the NetClient, its TimeSync, the timers and the socket
World == [client |-> client, timeSync |-> timeSync, timers |-> timers, sock |-> sock]

\* ... as they are after a call
Becomes(w) ==
    /\ client' = w.client
    /\ timeSync' = w.timeSync
    /\ timers' = w.timers
    /\ sock' = w.sock

outsideConnection == <<issued, base, baseCursor, ackMax, returnedVars, gameSet, playerSelf,
                       reconciler, messagesSent, moveMessage, codecVars, quantVars, valVars, pongAccepted, remoteVars>>

InitConnection ==
    /\ ConnIdle
    /\ InputBufferInit
    /\ now = 0
    /\ HistInit
    /\ SessInit
    /\ CodecIdle
    /\ QuantIdle
    /\ ValIdle
    /\ SyncIdle
    /\ RemoteIdle

\* the transport opens the connection: the 'connect' listener runs
TransportConnects ==
    /\ sock = "opening"
    /\ timeSync.nextPingSeq <= MaxProbes
    /\ Becomes(onConnect([World EXCEPT !.sock = "open"], now))
    /\ connectedAt' = now
    /\ recoverable' = FALSE
    /\ call' = [op |-> "connect", arg |-> 0, ret |-> 0]
    /\ UNCHANGED <<bufVars, now, messagesReceived, lastKnownState, rejoinRequests,
                   destroyed, lateConnect, outsideConnection>>

\* the transport fails to open the connection: the 'connect_error' listener runs,
\* which logs the error
TransportFails ==
    /\ sock = "opening"
    /\ sock' = "closed"
    /\ call' = [op |-> "connect_error", arg |-> 0, ret |-> 0]
    /\ UNCHANGED <<bufVars, now, messagesReceived, client, timeSync, timers, lastKnownState,
                   rejoinRequests, destroyed, recoverable, connectedAt, lateConnect,
                   outsideConnection>>

\* the transport loses the connection: the 'disconnect' listener runs
TransportDisconnects(reason) ==
    /\ sock = "open"
    /\ Becomes(onDisconnect([World EXCEPT !.sock = "closed"], reason, now))
    /\ recoverable' = (reason \in RecoverableReasons)
    /\ call' = [op |-> "disconnect", arg |-> 0, ret |-> 0]
    /\ UNCHANGED <<bufVars, now, messagesReceived, lastKnownState, rejoinRequests,
                   destroyed, connectedAt, lateConnect, outsideConnection>>

\* the timeout of _attemptReconnect runs
ReconnectTimerFires ==
    /\ \E t \in timers :
        /\ t.kind = "reconnect"
        /\ Due(t, now)
        /\ Becomes(reconnectTimeout([World EXCEPT !.timers = @ \ {t}]))
    /\ lateConnect' = (lateConnect \/ (destroyed /\ ~client.connected))
    /\ call' = [op |-> "reconnectTimer", arg |-> 0, ret |-> 0]
    /\ UNCHANGED <<bufVars, now, messagesReceived, lastKnownState, rejoinRequests,
                   destroyed, recoverable, connectedAt, outsideConnection>>

\* the interval of _startHeartbeat runs; ret 1: it reports the connection lost
HeartbeatTimerFires ==
    /\ \E t \in timers :
        /\ t.kind = "heartbeat"
        /\ Due(t, now)
        /\ timers' = (timers \ {t}) \cup {[t EXCEPT !.due = @ + heartbeatInterval]}
    /\ call' = [op |-> "heartbeatTimer", arg |-> 0,
                ret |-> IF heartbeatCheck(client, now) THEN 1 ELSE 0]
    /\ UNCHANGED <<bufVars, now, messagesReceived, client, timeSync, sock, connVars,
                   outsideConnection>>

\* the interval of TimeSync.start runs: this.sendPing()
ProbeTimerFires ==
    /\ timeSync.nextPingSeq <= MaxProbes
    /\ \E t \in timers :
        /\ t.kind = "ping"
        /\ Due(t, now)
        /\ timeSync' = sendPing(timeSync, now)
        /\ timers' = (timers \ {t}) \cup {[t EXCEPT !.due = @ + PingPeriod]}
    /\ call' = [op |-> "pingTimer", arg |-> 0, ret |-> 0]
    /\ UNCHANGED <<bufVars, now, messagesReceived, connVars, outsideConnection>>

\* a serverGameState message arrives: _handleStateUpdate(StateUpdates[i])
HandleState(data, i) ==
    /\ sock = "open"
    /\ client.stateUpdatesReceived < MaxUpdates
    /\ messagesReceived' = messagesReceived + 1
    /\ client' = [client EXCEPT !.stateUpdatesReceived = @ + 1,
                                !.lastStateUpdateTime = now,
                                !.lastHeartbeat = now]
    /\ lastKnownState' = stateCacheAfter(lastKnownState, data)
    /\ call' = [op |-> "stateUpdate", arg |-> i, ret |-> 0]
    /\ UNCHANGED <<bufVars, now, timeSync, timers, sock, rejoinRequests, destroyed,
                   recoverable, connectedAt, lateConnect, outsideConnection>>

\* the i-th message of StateUpdates arrives
HandleStateUpdate(i) == HandleState(StateUpdates[i], i)

\* the application calls destroy()
Destroy ==
    /\ ~destroyed
    /\ Becomes(destroy(World, now))
    /\ destroyed' = TRUE
    /\ recoverable' = FALSE
    /\ call' = [op |-> "destroy", arg |-> 0, ret |-> 0]
    /\ UNCHANGED <<bufVars, now, messagesReceived, lastKnownState, rejoinRequests,
                   connectedAt, lateConnect, outsideConnection>>

\* time passes, up to limit
ConnectionTick(limit) ==
    /\ \A t \in timers : ~Due(t, now)
    /\ now + 1000 <= limit
    /\ now' = now + 1000
    /\ call' = [op |-> "tick", arg |-> 0, ret |-> 0]
    /\ UNCHANGED <<bufVars, messagesReceived, timeSync, timers, connVars, outsideConnection>>

NextConnection ==
    \/ TransportConnects
    \/ TransportFails
    \/ \E reason \in TransportReasons : TransportDisconnects(reason)
    \/ ReconnectTimerFires
    \/ HeartbeatTimerFires
    \/ ProbeTimerFires
    \/ \E i \in DOMAIN StateUpdates : HandleStateUpdate(i)
    \/ Destroy
    \/ ConnectionTick(MaxLifeSeconds * 1000)

SpecConnection == InitConnection /\ [][NextConnection]_vars

-----------------------------------------------------------------------------
(* Specification SpecRejoin: the first second of a NetClient, with the       *)
(* moves the application sends and its rejoin calls.  The only timer that    *)
(* comes due within that time is the timeout of the first reconnect attempt. *)

MaxRejoinSeconds == 1   \* Date.now() goes up to MaxRejoinSeconds * 1000

NextRejoin ==
    \/ TransportConnects
    \/ TransportFails
    \/ \E reason \in TransportReasons : TransportDisconnects(reason)
    \/ ReconnectTimerFires
    \/ \E i \in DOMAIN StateUpdates : HandleStateUpdate(i)
    \/ \E input \in Inputs : SendMove(input)
    \/ Rejoin
    \/ Destroy
    \/ ConnectionTick(MaxRejoinSeconds * 1000)

SpecRejoin == InitConnection /\ [][NextRejoin]_vars

-----------------------------------------------------------------------------
(* Specification SpecStateCache: full states and deltas that list different   *)
(* players and knives, handled by a connected NetClient.                     *)

OtherPlayer == [playerId |-> 2, x |-> 1000, z |-> 0, health |-> 5, isDead |-> FALSE]
OtherKnife  == [knifeId |-> 2, x |-> 1000, z |-> 0]

\* serverGameState messages: full states tagged full, with one or two players, a
\* state that is neither tagged full nor delta and lists no knives, a delta
CacheUpdates ==
    <<[full |-> TRUE, players |-> <<FullPlayer>>, knives |-> <<FullKnife>>],
      [full |-> TRUE, players |-> <<OtherPlayer>>, knives |-> <<OtherKnife>>],
      [full |-> TRUE, players |-> <<FullPlayer, OtherPlayer>>, knives |-> <<>>],
      [players |-> <<OtherPlayer>>],
      [delta |-> TRUE, players |-> <<PlayerDelta>>, knives |-> <<KnifeDelta>>]>>

NextStateCache ==
    \/ TransportConnects
    \/ \E reason \in TransportReasons : TransportDisconnects(reason)
    \/ ReconnectTimerFires
    \/ \E i \in DOMAIN CacheUpdates : HandleState(CacheUpdates[i], i)
    \/ Rejoin
    \/ ConnectionTick(MaxRejoinSeconds * 1000)

SpecStateCache == InitConnection /\ [][NextStateCache]_vars

-----------------------------------------------------------------------------
(* Specification SpecReconnect: a NetClient on the socket of the page.  The  *)
(* page's own 'disconnect' listener calls socket.connect() for a disconnect  *)
(* by the server, and the socket is made with reconnection: true, so the     *)
(* connection is opened again without the NetClient's timeout having run.    *)

\* connect() is called on the closed socket by the page or by the socket itself
SocketReopens ==
    /\ sock = "closed"
    /\ ~destroyed
    /\ sock' = "opening"
    /\ call' = [op |-> "socketConnect", arg |-> 0, ret |-> 0]
    /\ UNCHANGED <<bufVars, now, messagesReceived, client, timeSync, timers, lastKnownState,
                   rejoinRequests, destroyed, recoverable, connectedAt, lateConnect,
                   outsideConnection>>

NextReconnect ==
    \/ TransportConnects
    \/ TransportFails
    \/ \E reason \in TransportReasons : TransportDisconnects(reason)
    \/ ReconnectTimerFires
    \/ SocketReopens
    \/ ConnectionTick(MaxRejoinSeconds * 1000)

SpecReconnect == InitConnection /\ [][NextReconnect]_vars

-----------------------------------------------------------------------------
(* Specification SpecMoves: the application sends moves and calls rejoin     *)
(* while the TimeSync probes the server and takes its responses, so that     *)
(* moves are sent with a clock offset that is not 0.  Time as in             *)
(* SpecTimeSync.                                                             *)

NextMoves ==
    \/ SyncStart
    \/ PingTimerFires
    \/ \E data \in Pongs(ServerTimes) : OnTimeSyncPong(data)
    \/ \E input \in Inputs : SendMove(input)
    \/ Rejoin
    \/ \E d \in {IF now % 1000 = 0 THEN 100 ELSE 900} : SyncTick(d, MaxSeconds * 1000)

SpecMoves == InitTimeSync /\ [][NextMoves]_vars

-----------------------------------------------------------------------------
(* Specifications of the remote player's snapshots.  The server's state      *)
(* messages arrive at any time, with any of the serverTime values, in any    *)
(* order; the frame loop calls interpolateOpponentPosition at any time.      *)
(* Every message holds the state of the opponent's player.                   *)

\* the state of the opponent's player in a message, with the message's serverTime
RemoteStates ==
    [serverTime : {100, 200}, x : {0, 10000}, z : {0},
     targetX : {10000}, targetZ : {0}, isMoving : {TRUE}]

outsideRemote == <<bufVars, issued, base, baseCursor, ackMax, returnedVars, sessVars,
                   codecVars, quantVars, valVars, syncVars, connVars>>

InitRemote ==
    /\ remote = RemoteInit(0)
    /\ InputBufferInit
    /\ now = 0
    /\ HistInit
    /\ SessInit
    /\ CodecIdle
    /\ QuantIdle
    /\ ValIdle
    /\ SyncIdle
    /\ ConnIdle

\* the number of serverGameState messages handled so far (up to InterArrivalCap)
Handled == IF remote.lastUpdateTimes = <<>> THEN 0 ELSE Len(remote.interArrivalTimes) + 1

\* a serverGameState message arrives, while fewer than limit were handled
HandleGameState(data, limit) ==
    /\ Handled < limit
    /\ remote' = handleOpponentState(remote, data, now)
    /\ call' = [op |-> "gameState", arg |-> data.serverTime, ret |-> data.x]
    /\ UNCHANGED <<now, outsideRemote>>

\* a frame: interpolateOpponentPosition(); arg is the render time
Interpolate ==
    /\ remote' = interpolateOpponentPosition(remote, now)
    /\ call' = [op |-> "interpolate", arg |-> RenderTime(remote, now),
                ret |-> FirstBracket(remote.opponentSnapshots, RenderTime(remote, now))]
    /\ UNCHANGED <<now, outsideRemote>>

\* time passes, by d ms, up to limit
RemoteTick(d, limit) ==
    /\ now + d <= limit
    /\ now' = now + d
    /\ call' = [op |-> "tick", arg |-> 0, ret |-> 0]
    /\ UNCHANGED <<remote, outsideRemote>>

(* Specification SpecInterpolation: a few snapshots and the frames of the    *)
(* first 200 ms, at chosen times.                                            *)

MaxFrameSnapshots == 3    \* serverGameState messages handled
MaxFrameTime == 200       \* Date.now() goes up to MaxFrameTime

\* the time that passes in one step, ms: Date.now() takes the values 0, 100, 130,
\* 170, 200, ...
FrameStep == IF now % 100 = 0 THEN (IF now = 0 THEN 100 ELSE 30)
             ELSE IF now % 100 = 30 THEN 40 ELSE 30

NextInterpolation ==
    \/ \E data \in RemoteStates : HandleGameState(data, MaxFrameSnapshots)
    \/ Interpolate
    \/ RemoteTick(FrameStep, MaxFrameTime)

SpecInterpolation == InitRemote /\ [][NextInterpolation]_vars

(* Specification SpecAdaptiveDelay: enough messages over enough time for the *)
(* interpolation delay to be adapted to the jitter of their arrival.         *)

MaxDelaySnapshots == 6    \* serverGameState messages handled
MaxDelaySeconds == 1      \* Date.now() goes up to MaxDelaySeconds * 1000

\* the states of the messages
DelayStates == {data \in RemoteStates : data.x = 0}

NextAdaptiveDelay ==
    \/ \E data \in DelayStates : HandleGameState(data, MaxDelaySnapshots)
    \/ Interpolate
    \/ RemoteTick(500, MaxDelaySeconds * 1000)

SpecAdaptiveDelay == InitRemote /\ [][NextAdaptiveDelay]_vars

(* Specification SpecSnapshotLimit: the snapshot buffer driven past its      *)
(* limit.  The messages differ while the buffer is short and when it is      *)
(* about full.                                                               *)

LimitExtra == 2     \* messages handled beyond snapshotLimit
LimitWindow == 3    \* the messages differ on the first and the last LimitWindow snapshots

InLimitWindow ==
    \/ Handled < LimitWindow
    \/ Handled >= snapshotLimit - LimitWindow

\* the one state of the messages in between
OneRemoteState == CHOOSE data \in RemoteStates : data.serverTime = 100 /\ data.x = 0

NextSnapshotLimit ==
    \/ \E data \in DelayStates :
        /\ InLimitWindow \/ data = OneRemoteState
        /\ HandleGameState(data, snapshotLimit + LimitExtra)
    \/ Interpolate

SpecSnapshotLimit == InitRemote /\ [][NextSnapshotLimit]_vars

-----------------------------------------------------------------------------
(* Properties of the InputBuffer *)

EntrySet(buf) == {buf[i] : i \in 1..Len(buf)}

\* C1, as stated: after any run of acknowledge calls the buffered inputs are exactly
\* the previously buffered entries with sequence > the highest cursor of the run.
C1_AcksLeaveEntriesAboveMax ==
    ackMax >= 0 => EntrySet(buffer) = {e \in EntrySet(base) : e.seq > ackMax}

\* C1, amended: after any run of acknowledge calls, in any order and with duplicates,
\* the buffered inputs are the previously buffered entries with sequence > the highest
\* cursor of the run when that cursor exceeds the ack cursor held before the run, and
\* all the previously buffered entries otherwise.
C1_AcksLeaveEntriesAboveEffectiveMax ==
    ackMax >= 0 =>
        EntrySet(buffer) = IF ackMax > baseCursor
                           THEN {e \in EntrySet(base) : e.seq > ackMax}
                           ELSE EntrySet(base)

\* inputs 1..5 buffered, a run of acknowledge calls with highest cursor 3, {4,5} left
C1_Witness ==
    /\ SeqsOf(base) = 1..5
    /\ ackMax = 3
    /\ SeqsOf(buffer) = {4, 5}

\* C2: the ack cursor never decreases, and acknowledge(cursor) with cursor <= the
\* current ack cursor changes neither the buffer, nor the ack cursor, nor totalAcked.
C2_AckCursorMonotoneStaleNoOp ==
    [][/\ lastProcessedSeq' >= lastProcessedSeq
       /\ (call'.op = "acknowledge" /\ call'.arg <= lastProcessedSeq)
              => UNCHANGED <<buffer, lastProcessedSeq, totalAcked>>]_vars

\* a stale acknowledge (an earlier call of the run had a higher cursor) was made on a
\* buffer that holds inputs
C2_Witness ==
    /\ call.op = "acknowledge"
    /\ call.arg < ackMax
    /\ call.arg > 0
    /\ buffer # <<>>

\* C4: the sequence numbers addInput returns are 1, 2, 3, ... in call order, so
\* none is returned twice, whatever acknowledge, eviction and clear did in between.
C4_SequencesNeverReused ==
    \A i \in 1..Len(issued) : issued[i] = i

\* addInput returned BufferCap + 2 (two evictions happened) after an acknowledge
\* and with a clear right before it
C4_Witness ==
    /\ call.op = "addInput"
    /\ call.ret = BufferCap + 2
    /\ Len(issued) = BufferCap + 2
    /\ lastProcessedSeq = 1
    /\ Len(buffer) = 1

\* C5: the buffer is sorted by strictly ascending sequence number.
C5_BufferStrictlyAscending ==
    \A i \in 1..(Len(buffer) - 1) : buffer[i].seq < buffer[i + 1].seq

\* a full buffer after evictions and an acknowledge
C5_Witness ==
    /\ Len(buffer) = BufferCap
    /\ buffer[1].seq > 1
    /\ lastProcessedSeq > 0

\* C6: the buffer never holds more than 100 entries, and an addInput on a buffer of
\* 100 entries drops exactly the first (oldest) one and keeps the new one at the end.
C6_CapEvictsOldest ==
    /\ [](Len(buffer) <= 100)
    /\ [][(nextSeq' # nextSeq /\ Len(buffer) = 100) =>
             /\ Len(buffer') = 100
             /\ SubSeq(buffer', 1, 99) = Tail(buffer)
             /\ buffer'[100].seq = nextSeq]_vars

\* two evictions happened: the buffer holds the 100 entries 3..102
C6_Witness ==
    /\ Len(buffer) = 100
    /\ buffer[1].seq = 3
    /\ buffer[100].seq = 102

\* C7: the array getUnacknowledgedInputs returned keeps its entries and their order
\* while addInput, acknowledge and clear are called, and a modification of it by
\* the caller leaves the buffer as it was.
C7_ReturnedListIsACopy ==
    /\ [](~returnedTouched => returned = returnedAt)
    /\ [][call'.op = "modifyReturned" => buffer' = buffer]_vars

\* an addInput was made after the list was returned: the buffer moved on and the
\* list did not
C7_Witness ==
    /\ call.op = "addInput"
    /\ ~returnedTouched
    /\ Len(returned) >= 2
    /\ returned = returnedAt
    /\ buffer # returned

-----------------------------------------------------------------------------
(* Properties of the session manager *)

\* the local entity's position
LocalPosition == IF playerSelf = NoPlayer THEN NoPlayer ELSE PositionOf(playerSelf)

\* the correction state: active, start time, from and to positions
CorrectionState ==
    [active |-> reconciler.correctionInProgress,
     startTime |-> reconciler.correctionStartTime,
     fromPosition |-> reconciler.correctionStartPos,
     toPosition |-> reconciler.correctionTargetPos]

\* C3: handling a move ack whose cursor (a sequence number, 1 or more) is lower than
\* or equal to the current ack cursor leaves the input buffer, the ack cursor, the
\* local entity's position and the correction state as they were before it arrived.
C3_StaleAckChangesNothing ==
    [][(call'.op = "moveAck" /\ messagesReceived' # messagesReceived
            /\ call'.arg >= 1 /\ call'.arg <= lastProcessedSeq)
          => /\ buffer' = buffer
             /\ lastProcessedSeq' = lastProcessedSeq
             /\ LocalPosition' = LocalPosition
             /\ CorrectionState' = CorrectionState]_vars

\* the ack of move 1 was handled after the ack of move 2 and after the correction
\* that one started was over: a new correction is under way, back to the older place
C3_Witness ==
    /\ call.op = "moveAck"
    /\ call.arg = 1
    /\ lastProcessedSeq = 2
    /\ reconciler.correctionInProgress
    /\ reconciler.correctionStartTime = smoothingDuration
    /\ reconciler.correctionStartPos = [x |-> 390, z |-> 0]
    /\ reconciler.correctionTargetPos = [x |-> 0, z |-> 0]

-----------------------------------------------------------------------------
(* Properties of the codec *)

\* both coordinates are quantized to 2 decimals
OnGrid(state) == state.x % 10 = 0 /\ state.z % 10 = 0

\* the position threshold of the entity's delta function
PosThreshold(state) == IF IsPlayer(state) THEN 10 ELSE 100

\* the coordinates of cur that the delta function takes as changed
MovedFields(cur, prev) == {f \in {"x", "z"} : Exceeds(cur[f], prev[f], PosThreshold(cur))}

C9_PlayerDeltaHoldsExactlyTheChanges ==
    (codecStep # "init" /\ IsPlayer(current)) =>
        IF previous = Absent
        THEN /\ DOMAIN delta = DOMAIN current \cup {"full"}
             /\ delta.full = TRUE
             /\ \A f \in DOMAIN current : delta[f] = current[f]
        ELSE LET changed == MovedFields(current, previous)
                                \cup {f \in PlayerFlags : current[f] # previous[f]}
             IN  IF changed = {}
                 THEN delta = Null
                 ELSE /\ delta # Null
                      /\ DOMAIN delta = {"playerId"} \cup changed
                      /\ delta.playerId = current.playerId
                      /\ \A f \in changed \cap {"x", "z"} : delta[f] = quantizePosition(current[f])
                      /\ \A f \in changed \cap PlayerFlags : delta[f] = current[f]

\* a player moved from x = 0 to x = 0.024 and stopped: the delta holds the
\* playerId, x = 0.02 and isMoving
C9_Witness ==
    /\ codecStep = "delta"
    /\ IsPlayer(current)
    /\ previous # Absent
    /\ previous.x = 0
    /\ current.x = 24
    /\ DOMAIN delta = {"playerId", "x", "isMoving"}
    /\ delta.x = 20

-----------------------------------------------------------------------------
(* Properties of the validation *)

\* a finite number within the coordinate bound
WellFormed(v) == v.type = "number" /\ v.class = "finite" /\ Abs(v.value) <= CoordinateBound

\* C11: validateMoveCommand and validateKnifeThrowCommand return true exactly for
\* payloads whose targetX and targetZ are finite numbers within the coordinate
\* bound, and false for every other payload.
C11_ValidationRejectsMalformed ==
    valCalled # "none" =>
        (valResult <=> (WellFormed(valData.targetX) /\ WellFormed(valData.targetZ)))

\* a knife throw aimed at infinity was validated
C11_Witness ==
    /\ valCalled = "knifeThrow"
    /\ valData.targetX = PlusInfinity
    /\ valData.targetZ = Finite(0)

-----------------------------------------------------------------------------
(* Properties of the TimeSync *)

\* C12: a response whose seq is not in the pending map leaves the TimeSync as it
\* was: offset, rtt, jitter, syncCount, lastSyncTime and the pending map.
C12_UnknownPongIsDiscarded ==
    [][(call'.op = "handlePong" /\ Pending(timeSync, call'.arg) = {})
          => timeSync' = timeSync]_vars

\* a second response for a probe that was answered before was handled
C12_Witness ==
    /\ call.op = "handlePong"
    /\ pongAccepted = -1
    /\ call.arg >= 1
    /\ call.arg < timeSync.nextPingSeq
    /\ timeSync.syncCount >= 1

\* C13: for an accepted response, with measuredRTT = receive time - send time and
\* measuredOffset = serverTime + measuredRTT / 2 - receive time, the first sample
\* sets rtt and offset to the measured values and leaves jitter; a later sample
\* gives rtt = 0.2 measuredRTT + 0.8 rtt, offset = 0.1 measuredOffset + 0.9 offset,
\* jitter = 0.1 |measuredRTT - rtt| + 0.9 jitter.
C13_FirstSampleSetsLaterSamplesSmooth ==
    [][(call'.op = "handlePong" /\ Pending(timeSync, call'.arg) # {}) =>
          LET sent == (CHOOSE p \in Pending(timeSync, call'.arg) : TRUE).clientSendTime
              measuredRTT == RatOf(now - sent)
              measuredOffset == Rat(2 * call'.ret + (now - sent) - 2 * now, 2)
          IN  IF timeSync.syncCount = 0
              THEN /\ timeSync'.rtt = measuredRTT
                   /\ timeSync'.offset = measuredOffset
                   /\ timeSync'.jitter = timeSync.jitter
              ELSE /\ RatTimes(10, 1, timeSync'.rtt)
                         = RatAdd(RatTimes(2, 1, measuredRTT), RatTimes(8, 1, timeSync.rtt))
                   /\ RatTimes(10, 1, timeSync'.offset)
                         = RatAdd(measuredOffset, RatTimes(9, 1, timeSync.offset))
                   /\ RatTimes(10, 1, timeSync'.jitter)
                         = RatAdd(RatAbs(RatSub(measuredRTT, timeSync.rtt)),
                                  RatTimes(9, 1, timeSync.jitter))]_vars

\* the probe sent at 1000 was answered with serverTime 1050 at 1100: rtt 100, offset 0
C13_Witness ==
    /\ call = [op |-> "handlePong", arg |-> 1, ret |-> 1050]
    /\ now = 1100
    /\ pongAccepted = 100
    /\ timeSync.syncCount = 1
    /\ timeSync.rtt = RatOf(100)
    /\ timeSync.offset = RatOf(0)

\* the probe with sequence seq is pending and older than the staleness window
StalePending(seq) ==
    \E p \in timeSync.pendingPings : p.seq = seq /\ now - p.clientSendTime > StaleWindow

\* C14: a pending probe older than the staleness window is eventually removed from
\* the pending map, also after stop(); and no response is accepted for a probe older
\* than the window.
C14_StaleProbesAreDestroyed ==
    /\ \A seq \in 1..MaxPings : [](StalePending(seq) => <>(Pending(timeSync, seq) = {}))
    /\ [](pongAccepted <= StaleWindow)

\* the response for a probe sent 6 s before was accepted
C14_Witness ==
    /\ call.op = "handlePong"
    /\ pongAccepted = 6000

\* C15: there is at most one ping interval timer, and none when the TimeSync is not
\* started; start() on a started TimeSync adds no timer and sends no probe; a probe
\* is only sent by start() or while the TimeSync is started.
C15_OneProbeTimerBetweenStartAndStop ==
    /\ [](/\ Cardinality({t \in timers : t.kind = "ping"}) <= 1
          /\ (timeSync.pingInterval = 0 => \A t \in timers : t.kind # "ping"))
    /\ [][/\ (call'.op = "start" /\ timeSync.pingInterval # 0)
                => (timers' = timers /\ timeSync' = timeSync)
          /\ (timeSync'.nextPingSeq # timeSync.nextPingSeq)
                => (call'.op = "start" \/ timeSync.pingInterval # 0)]_vars

\* start() was called on a TimeSync started a second before
C15_Witness ==
    /\ call.op = "start"
    /\ timeSync.pingInterval # 0
    /\ timeSync.nextPingSeq = 2
    /\ \E t \in timers : t.kind = "ping" /\ t.due = now + PingPeriod - 1000

-----------------------------------------------------------------------------
(* Properties of the NetClient connection *)

\* a timeout of _attemptReconnect is pending
ReconnectPending == \E t \in timers : t.kind = "reconnect"

\* C16: after a recoverable disconnect, as long as the connection is not
\* re-established and fewer than options.reconnectAttempts attempts were made, a
\* reconnect attempt is scheduled or under way; the n-th attempt is scheduled
\* reconnectDelay * n after the moment it is scheduled, and n never exceeds
\* options.reconnectAttempts.
C16_KeepsSchedulingReconnects ==
    /\ [](recoverable /\ ~client.connected /\ client.reconnectAttempt < reconnectAttempts
            => ReconnectPending \/ sock = "opening")
    /\ [](client.reconnectAttempt <= reconnectAttempts)
    /\ [][\A t \in timers' \ timers :
            t.kind = "reconnect" => t.due = now + reconnectDelay * client'.reconnectAttempt]_vars

\* the first reconnect attempt failed and nothing is scheduled
C16_Witness ==
    /\ call.op = "connect_error"
    /\ recoverable
    /\ client.reconnectAttempt = 1
    /\ ~ReconnectPending

\* C17: once destroy() was called no timer remains (probe interval, heartbeat
\* interval, reconnect timeout), and no callback has called socket.connect() since.
C17_DestroyLeavesNoTimer ==
    destroyed => timers = {} /\ ~lateConnect

\* after destroy() the reconnect timeout reconnected the socket and the heartbeat
\* and probe intervals run again
C17_Witness ==
    /\ destroyed
    /\ lateConnect
    /\ \E t \in timers : t.kind = "heartbeat"
    /\ \E t \in timers : t.kind = "ping"

\* C18: when the transport reconnects ('connect' after an earlier 'connect'), the
\* NetClient leaves the input buffer and the delta cache empty and emits one
\* rejoin request.
C18_ReconnectClearsAndRejoins ==
    [][call'.op = "connect" /\ connectedAt >= 0
        => /\ buffer' = <<>>
           /\ DOMAIN lastKnownState'.players = {}
           /\ DOMAIN lastKnownState'.knives = {}
           /\ Len(rejoinRequests') = Len(rejoinRequests) + 1]_vars

\* the transport reconnected (the probing was started a second time) with an
\* input buffered and a player cached
C18_Witness ==
    /\ call.op = "connect"
    /\ timeSync.nextPingSeq > 2
    /\ buffer # <<>>
    /\ DOMAIN lastKnownState.players # {}

\* the entities of a message's list, if it has the list
EntitiesOf(data, field) ==
    IF Has(data, field) THEN {data[field][i] : i \in 1..Len(data[field])} ELSE {}

\* C19: rejoin(roomCode, playerId) emits one rejoin request with that room and
\* player, and leaves the input buffer and both delta caches empty; an entity of a
\* delta message handled next is cached as it is in the message.
C19_RejoinStartsAfresh ==
    [][/\ call'.op = "rejoin" =>
            /\ \E roomCode \in RoomCodes :
                 rejoinRequests' = Append(rejoinRequests,
                                          [roomCode |-> roomCode, playerId |-> call'.arg])
            /\ buffer' = <<>>
            /\ DOMAIN lastKnownState'.players = {}
            /\ DOMAIN lastKnownState'.knives = {}
       /\ call.op = "rejoin" /\ call'.op = "stateUpdate" /\ IsDelta(StateUpdates[call'.arg]) =>
            /\ \A e \in EntitiesOf(StateUpdates[call'.arg], "players") :
                 lastKnownState'.players[e.playerId] = e
            /\ \A e \in EntitiesOf(StateUpdates[call'.arg], "knives") :
                 lastKnownState'.knives[e.knifeId] = e]_vars

\* a delta handled as the second state update, after a rejoin that emptied the
\* input buffer: the player of the delta is cached as the delta
C19_Witness ==
    /\ call.op = "stateUpdate"
    /\ call.arg = 2
    /\ client.stateUpdatesReceived = 2
    /\ rejoinRequests # <<>>
    /\ nextSeq > 1
    /\ buffer = <<>>
    /\ lastKnownState.players[1] = PlayerDelta

\* C20: after a 'connect' event connected is true, reconnecting false,
\* reconnectAttempt 0 and lastHeartbeat the time of the event; the heartbeat check
\* reports the connection lost only when more than heartbeatTimeout passed since
\* the last 'connect' event.
C20_ConnectResetsSessionState ==
    /\ call.op = "connect" =>
        /\ client.connected
        /\ ~client.reconnecting
        /\ client.reconnectAttempt = 0
        /\ client.lastHeartbeat = now
    /\ call.op = "heartbeatTimer" /\ call.ret = 1 =>
        now - connectedAt > heartbeatTimeout

\* the first heartbeat check after a 'connect' event reports the connection lost
C20_Witness ==
    /\ call.op = "heartbeatTimer"
    /\ call.ret = 1
    /\ now - connectedAt = heartbeatInterval

\* Date.now() when the last serverGameState message was handled, or when the
\* NetClient was constructed if none was
LastInbound == IF client.stateUpdatesReceived > 0 THEN client.lastStateUpdateTime ELSE 0

\* C21: a heartbeat tick reports the connection lost exactly when more than
\* heartbeatTimeout passed since the last inbound state message (since the
\* construction, if there was none), and leaves connected, reconnecting,
\* reconnectAttempt and the socket as they are.
C21_HeartbeatOnlySignals ==
    [][call'.op = "heartbeatTimer" =>
        /\ (call'.ret = 1) = (now - LastInbound > heartbeatTimeout)
        /\ client'.connected = client.connected
        /\ client'.reconnecting = client.reconnecting
        /\ client'.reconnectAttempt = client.reconnectAttempt
        /\ sock' = sock]_vars

\* a heartbeat tick of a connected client that reports the loss, 1 s past the timeout
C21_Witness ==
    /\ call.op = "heartbeatTimer"
    /\ call.ret = 1
    /\ client.connected
    /\ now - LastInbound = heartbeatTimeout + 1000

\* map.get(id), Absent for undefined
Cached(map, id) == IF id \in DOMAIN map THEN map[id] ELSE Absent

\* C22: for every entity of a delta snapshot, the state cached after the message
\* is NetProtocol.applyDelta(entity, the state cached before): the entity itself
\* when it is tagged full or nothing was cached, otherwise the cached state with
\* the entity's fields overwritten.
C22_CacheFollowsApplyDelta ==
    [][call'.op = "stateUpdate" /\ IsDelta(StateUpdates[call'.arg]) =>
        /\ \A e \in EntitiesOf(StateUpdates[call'.arg], "players") :
             lastKnownState'.players[e.playerId]
                 = applyDelta(e, Cached(lastKnownState.players, e.playerId))
        /\ \A e \in EntitiesOf(StateUpdates[call'.arg], "knives") :
             lastKnownState'.knives[e.knifeId]
                 = applyDelta(e, Cached(lastKnownState.knives, e.knifeId))]_vars

\* the entity tagged full was merged into the cached state of the dead player:
\* the cached state is tagged full and still has isDead
C22_Witness ==
    /\ call.op = "stateUpdate"
    /\ call.arg = 4
    /\ "isDead" \in DOMAIN lastKnownState.players[1]
    /\ "full" \in DOMAIN lastKnownState.players[1]

\* C23: a sendMove call buffers exactly one input and emits exactly one move
\* message; the message's seq is the sequence just assigned to that input, greater
\* than the seq of the move message before it, and its clientTime is the
\* TimeSync's estimate of the server time, Date.now() + offset.
C23_MovesAreStampedBySequencerAndClock ==
    [][call'.op = "sendMove" =>
        /\ Len(buffer') = Len(buffer) + 1
        /\ messagesSent' = messagesSent + 1
        /\ moveMessage'.event = "playerMove"
        /\ moveMessage'.seq = buffer'[Len(buffer')].seq
        /\ moveMessage'.seq = call'.ret
        /\ moveMessage # NoMessage => moveMessage'.seq > moveMessage.seq
        /\ RatOf(moveMessage'.clientTime) = getServerTime(timeSync, now)]_vars

\* a move sent when the clock offset is not 0, stamped with the local time
C23_Witness ==
    /\ call.op = "sendMove"
    /\ timeSync.offset # RatOf(0)
    /\ moveMessage.clientTime = now
    /\ moveMessage.seq = 2

-----------------------------------------------------------------------------
(* Properties of the remote player's snapshots *)

\* x is a + (b - a) * num / den cut to the grid, or a when den is 0
OnLine(x, a, b, num, den) ==
    IF den = 0 THEN x = a ELSE Abs((x - a) * den - (b - a) * num) < den

\* x lies between a and b
Between(x, a, b) == (a <= x /\ x <= b) \/ (b <= x /\ x <= a)

\* C24: when two consecutive snapshots s0, s1 have s0.timestamp <= renderTime <=
\* s1.timestamp, the position rendered by interpolateOpponentPosition is, for the
\* first such pair, s0 + (s1 - s0) * t with t = (renderTime - s0.timestamp) /
\* (s1.timestamp - s0.timestamp) clamped to [0, 1], and s0's position when the
\* timestamps are equal; it lies between the two snapshot positions.
C24_InterpolationStaysOnSegment ==
    [][call'.op = "interpolate" =>
        LET snapshots == remote.opponentSnapshots
            r == now * 100 - remote.serverTimeOffset - remote.interpolationDelay
            pairs == {i \in 1..(Len(snapshots) - 1) :
                        /\ snapshots[i].timestamp * 100 <= r
                        /\ r <= snapshots[i + 1].timestamp * 100}
        IN  pairs # {} =>
              LET i == CHOOSE i \in pairs : \A j \in pairs : i <= j
                  s0 == snapshots[i]
                  s1 == snapshots[i + 1]
                  den == (s1.timestamp - s0.timestamp) * 100
                  num == r - s0.timestamp * 100
              IN  /\ OnLine(remote'.playerOpponent.x, s0.x, s1.x, num, den)
                  /\ OnLine(remote'.playerOpponent.z, s0.z, s1.z, num, den)
                  /\ Between(remote'.playerOpponent.x, s0.x, s1.x)
                  /\ Between(remote'.playerOpponent.z, s0.z, s1.z)]_vars

\* snapshots {t=100, x=0}, {t=200, x=10} rendered at render time 150: x = 5
C24_Witness ==
    /\ call.op = "interpolate"
    /\ call.arg = 15000
    /\ call.ret = 1
    /\ remote.opponentSnapshots[1].timestamp = 100
    /\ remote.opponentSnapshots[1].x = 0
    /\ remote.opponentSnapshots[2].timestamp = 200
    /\ remote.opponentSnapshots[2].x = 10000
    /\ remote.playerOpponent.x = 5000

\* C25: the interpolation delay is always between minInterpolationDelay and
\* maxInterpolationDelay, 20 ms and 70 ms.
C25_DelayWithinBounds ==
    /\ 2000 <= remote.interpolationDelay
    /\ remote.interpolationDelay <= 7000

\* the delay was adapted to a jitter whose cushion goes beyond the maximum
C25_Witness ==
    /\ call.op = "gameState"
    /\ remote.lastAdaptiveUpdate = now
    /\ now > 0
    /\ baseInterpolationDelay + (remote.jitter * 12) \div 10 > maxInterpolationDelay
    /\ remote.interpolationDelay = maxInterpolationDelay

\* C26: the snapshot buffer never holds more than 32 snapshots; a state message
\* handled when it holds 32 drops the first (oldest) snapshot and keeps the
\* snapshot of the message at the end.
C26_SnapshotLimitDropsOldest ==
    /\ [](Len(remote.opponentSnapshots) <= 32)
    /\ [][call'.op = "gameState" /\ Len(remote.opponentSnapshots) = 32 =>
            /\ Len(remote'.opponentSnapshots) = 32
            /\ SubSeq(remote'.opponentSnapshots, 1, 31) = Tail(remote.opponentSnapshots)
            /\ remote'.opponentSnapshots[32].timestamp = call'.arg
            /\ remote'.opponentSnapshots[32].x = call'.ret]_vars

\* two snapshots were dropped: 34 messages handled, 32 snapshots held, the last
\* one differing from the ones in between
C26_Witness ==
    /\ call.op = "gameState"
    /\ Handled = snapshotLimit + 2
    /\ Len(remote.opponentSnapshots) = snapshotLimit
    /\ remote.opponentSnapshots[snapshotLimit].timestamp = 200

\* C27: the snapshot buffer is ordered by non-decreasing timestamp.
C27_SnapshotsOrderedByTimestamp ==
    \A i \in 1..(Len(remote.opponentSnapshots) - 1) :
        remote.opponentSnapshots[i].timestamp <= remote.opponentSnapshots[i + 1].timestamp

\* a message with a lower serverTime was handled after one with a higher: the
\* buffer holds them in the order of arrival, and no pair brackets a render time
\* between the two timestamps
C27_Witness ==
    /\ call.op = "interpolate"
    /\ Len(remote.opponentSnapshots) = 2
    /\ remote.opponentSnapshots[1].timestamp = 200
    /\ remote.opponentSnapshots[2].timestamp = 100
    /\ call.arg > 10000
    /\ call.arg < 20000
    /\ call.ret = 0

-----------------------------------------------------------------------------
(* Properties of the reconciler's thresholds *)

\* the square of the error the last reconcile call found: the distance between the
\* position after the replay and the position predicted before the call
ErrorSq ==
    (call.replayed.x - call.predicted.x) * (call.replayed.x - call.predicted.x)
        + (call.replayed.z - call.predicted.z) * (call.replayed.z - call.predicted.z)

\* the last step was a move ack whose reconcile call ran (there is a local player)
Reconciled == call.op = "moveAck" /\ call.ran

\* C28: after a reconcile call that finds the error below the visible threshold
\* (0.1 units), no correction is in progress and the local position is the position
\* after the replay, whatever the correction state was before the call.
C28_SmallErrorLeavesEngineIdle ==
    (Reconciled /\ ErrorSq < 100 * 100) =>
        /\ ~reconciler.correctionInProgress
        /\ PositionOf(playerSelf) = call.replayed

\* a reconcile call found no error while a correction was in progress: the
\* correction is still in progress after it
C28_Witness ==
    /\ Reconciled
    /\ ErrorSq < 100 * 100
    /\ call.wasCorrecting
    /\ reconciler.correctionInProgress
    /\ reconciler.correctionTargetPos # call.replayed
    /\ PositionOf(playerSelf) = call.replayed

\* the engine is Correcting from the predicted position to the position after replay
CorrectingFromPredicted ==
    /\ reconciler.correctionInProgress
    /\ PositionOf(playerSelf) = call.predicted
    /\ reconciler.correctionStartPos = call.predicted
    /\ reconciler.correctionTargetPos = call.replayed
    /\ reconciler.correctionStartTime = now

\* C29 (as stated): after a reconcile call that finds an error at or above the
\* visible threshold (0.1 units) and below the teleport threshold (10 units), the
\* engine is Correcting: the local position is the position predicted before the
\* call, fromPosition is that position and toPosition the position after replay.
C29_VisibleErrorStartsCorrection ==
    (Reconciled /\ ErrorSq >= 100 * 100 /\ ErrorSq < 10000 * 10000) =>
        CorrectingFromPredicted

\* C29 (corrected): the same for an error above the visible threshold and below the
\* teleport threshold.
C29_ErrorAboveVisibleStartsCorrection ==
    (Reconciled /\ ErrorSq > 100 * 100 /\ ErrorSq < 10000 * 10000) =>
        CorrectingFromPredicted

\* a correction was started by an error of one step, away from where the replay ends
C29_Witness ==
    /\ Reconciled
    /\ ErrorSq > 100 * 100
    /\ ErrorSq < 10000 * 10000
    /\ call.predicted # call.replayed
    /\ CorrectingFromPredicted

\* C30: after a reconcile call that finds an error at or above the teleport
\* threshold (10 units), the local position is the position after replay and no
\* correction is in progress, whatever the correction state was before the call.
C30_LargeErrorTeleports ==
    (Reconciled /\ ErrorSq >= 10000 * 10000) =>
        /\ PositionOf(playerSelf) = call.replayed
        /\ ~reconciler.correctionInProgress
        /\ reconciler.lastCorrectionTime = now

\* an error of exactly the teleport threshold found while a correction was in
\* progress: the player is where the replay ends and the correction is cancelled
C30_Witness ==
    /\ Reconciled
    /\ ErrorSq = 10000 * 10000
    /\ call.wasCorrecting
    /\ ~reconciler.correctionInProgress
    /\ PositionOf(playerSelf) = call.replayed

-----------------------------------------------------------------------------
(* Properties of the smoothing step *)

\* C31: an updateSmoothing call made while a correction is in progress and the time
\* since its start is the smoothing duration or more puts the player at the
\* correction's target and ends the correction; a call made while no correction is
\* in progress changes neither the player nor the reconciler; and with the frame
\* loop running and time advancing a correction in progress is always followed by
\* a state with no correction in progress.
C31_EveryCorrectionEnds ==
    /\ [][call'.op = "updateSmoothing" =>
            /\ (reconciler.correctionInProgress
                    /\ now - reconciler.correctionStartTime >= 100) =>
                  /\ PositionOf(playerSelf') = reconciler.correctionTargetPos
                  /\ ~reconciler'.correctionInProgress
            /\ (reconciler.correctionInProgress
                    /\ now - reconciler.correctionStartTime < 100) =>
                  reconciler'.correctionInProgress
            /\ ~reconciler.correctionInProgress =>
                  /\ playerSelf' = playerSelf
                  /\ reconciler' = reconciler]_vars
    /\ (reconciler.correctionInProgress ~> ~reconciler.correctionInProgress)

\* a correction that started at time 100 was ended by the call made at time 200,
\* the player at its target
C31_Witness ==
    /\ call.op = "updateSmoothing"
    /\ now = 200
    /\ reconciler.correctionStartTime = 100
    /\ reconciler.totalCorrections >= 1
    /\ ~reconciler.correctionInProgress
    /\ PositionOf(playerSelf) = reconciler.correctionTargetPos
    /\ reconciler.correctionTargetPos # reconciler.correctionStartPos

-----------------------------------------------------------------------------
(* Properties of the replay *)

\* the sequence numbers of the list are strictly ascending
Ascending(seqs) == \A i \in 1..(Len(seqs) - 1) : seqs[i] < seqs[i + 1]

\* C32 (as stated): the inputs a move ack's reconcile call replays are exactly the
\* buffered inputs with a sequence greater than the ack cursor, as they are after
\* the ack was applied to the buffer, each once, in ascending order of sequence.
C32_ReplaysInputsAboveCursor ==
    Reconciled =>
        /\ call.inputs = SeqList(FilterAbove(buffer, lastProcessedSeq))
        /\ Ascending(call.inputs)

\* C32 (corrected): the inputs a move ack's reconcile call replays are exactly the
\* inputs the buffer holds after the ack was applied to it, each once, in ascending
\* order of sequence; as long as no ack cursor went beyond the sequences allocated,
\* these are the buffered inputs with a sequence greater than the ack cursor.
C32_ReplaysBufferAfterAck ==
    /\ [](Reconciled =>
            /\ call.inputs = SeqList(buffer)
            /\ Ascending(call.inputs))
    /\ ([](lastProcessedSeq < nextSeq)
          => [](Reconciled => call.inputs = SeqList(FilterAbove(buffer, lastProcessedSeq))))

\* moves 1 and 2 were sent, the ack of move 1 dropped it and move 2 was replayed
C32_Witness ==
    /\ Reconciled
    /\ call.arg = 1
    /\ lastProcessedSeq = 1
    /\ nextSeq = 3
    /\ call.inputs = <<2>>
    /\ call.replayed # call.predicted

\* C33: replaying one input with applyInput puts the player where one frame of
\* updatePlayerMovement towards the same target puts it from the same place.
C33_ReplayStepIsSimulationStep ==
    [][/\ call'.op = "applyInput" =>
            PositionOf(playerSelf')
                = PositionOf(updatePlayerMovement(Aimed(playerSelf, call'.input)))
       /\ call'.op = "updatePlayerMovement" =>
            PositionOf(playerSelf') = PositionOf(applyInput(playerSelf, call'.input))]_vars

\* an input whose target is 0.05 units away was replayed: the player has not moved
C33_Witness ==
    /\ call.op = "applyInput"
    /\ call.from = [x |-> 50, z |-> 0]
    /\ call.input = [targetX |-> 100, targetZ |-> 0]
    /\ PositionOf(playerSelf) = call.from
    /\ PositionOf(updatePlayerMovement(playerSelf)) = [x |-> 100, z |-> 0]

-----------------------------------------------------------------------------
(* Properties of the extrapolation *)

\* p is v * h for the velocity v = d / dt (per ms) and a horizon h of 0 to 100 ms
\* (in hundredths of a millisecond), up to the cut to the grid
WithinHorizon(p, d, dt) ==
    /\ p * d >= 0
    /\ Abs(p) * dt * 100 <= Abs(d) * 10000

\* C34: when interpolateOpponentPosition finds no pair of snapshots around the
\* render time, the position it renders is the newest snapshot's position plus the
\* velocity between the two most recent snapshots times a horizon of 0 to 100 ms:
\* never further than 100 ms ahead and never backwards; it is the newest snapshot's
\* position itself when the render time is older than every snapshot.
C34_ExtrapolationIsShortHorizon ==
    [][(call'.op = "interpolate" /\ call'.ret = 0 /\ Len(remote.opponentSnapshots) >= 2) =>
        LET snapshots == remote.opponentSnapshots
            latest == snapshots[Len(snapshots)]
            prev == snapshots[Len(snapshots) - 1]
            dt == latest.timestamp - prev.timestamp
            px == remote'.playerOpponent.x - latest.x
            pz == remote'.playerOpponent.z - latest.z
        IN  /\ IF dt > 0
               THEN /\ WithinHorizon(px, latest.x - prev.x, dt)
                    /\ WithinHorizon(pz, latest.z - prev.z, dt)
               ELSE px = 0 /\ pz = 0
            /\ (\A i \in 1..Len(snapshots) : call'.arg < snapshots[i].timestamp * 100)
                  => px = 0 /\ pz = 0]_vars

\* snapshots {t=100, x=0}, {t=200, x=10} rendered at a render time before 100: the
\* position is behind both snapshots
C34_Witness ==
    /\ call.op = "interpolate"
    /\ call.ret = 0
    /\ Len(remote.opponentSnapshots) = 2
    /\ remote.opponentSnapshots[1].timestamp = 100
    /\ remote.opponentSnapshots[1].x = 0
    /\ remote.opponentSnapshots[2].timestamp = 200
    /\ remote.opponentSnapshots[2].x = 10000
    /\ call.arg < 10000
    /\ remote.playerOpponent.x < 0

\* C35: after interpolateOpponentPosition ran with exactly one snapshot in the
\* buffer, the rendered position of the remote player is that snapshot's position.
C35_OneSnapshotIsHeld ==
    (call.op = "interpolate" /\ Len(remote.opponentSnapshots) = 1) =>
        /\ remote.playerOpponent.x = remote.opponentSnapshots[1].x
        /\ remote.playerOpponent.z = remote.opponentSnapshots[1].z

\* one snapshot {x=10} is buffered and a frame was rendered: the remote player is
\* where the game created it
C35_Witness ==
    /\ call.op = "interpolate"
    /\ Len(remote.opponentSnapshots) = 1
    /\ remote.opponentSnapshots[1].x = 10000
    /\ remote.playerOpponent.x = RemoteInit(0).playerOpponent.x
    /\ now > 0

-----------------------------------------------------------------------------
(* Properties of the disconnect and the reconnect timer *)

\* the reconnect timers pending
ReconnectTimers == {t \in timers : t.kind = "reconnect"}

-----------------------------------------------------------------------------
(* Properties of the cache after a full state *)

\* the ids of the entities a message lists under a field, none without the field
Listed(data, field, key) ==
    IF Has(data, field) THEN {data[field][i][key] : i \in 1..Len(data[field])} ELSE {}

\* every entity the message lists under the field is cached as listed
CachedAsListed(map, data, field, key) ==
    Has(data, field) =>
        \A i \in 1..Len(data[field]) :
            /\ data[field][i][key] \in DOMAIN map
            /\ map[data[field][i][key]] = data[field][i]

\* C37 (as stated): after a state message that is not a delta is handled, the cache
\* holds an entry for exactly the players and the knives the message lists, each
\* equal to the listed state.
C37_FullStateReplacesCache ==
    [][(call'.op = "stateUpdate" /\ ~IsDelta(CacheUpdates[call'.arg])) =>
        LET data == CacheUpdates[call'.arg]
        IN  /\ DOMAIN lastKnownState'.players = Listed(data, "players", "playerId")
            /\ DOMAIN lastKnownState'.knives = Listed(data, "knives", "knifeId")
            /\ CachedAsListed(lastKnownState'.players, data, "players", "playerId")
            /\ CachedAsListed(lastKnownState'.knives, data, "knives", "knifeId")]_vars

\* C37 (corrected): after a state message that is not a delta is handled, every
\* player and knife it lists is cached as listed; the players it does not list stay
\* cached as they were; when it has a list of knives the cached knives are exactly
\* the listed ones, and without one the cached knives stay as they were.
C37_FullStateOverwritesListed ==
    [][(call'.op = "stateUpdate" /\ ~IsDelta(CacheUpdates[call'.arg])) =>
        LET data == CacheUpdates[call'.arg]
            ids == Listed(data, "players", "playerId")
        IN  /\ CachedAsListed(lastKnownState'.players, data, "players", "playerId")
            /\ CachedAsListed(lastKnownState'.knives, data, "knives", "knifeId")
            /\ DOMAIN lastKnownState'.players = DOMAIN lastKnownState.players \cup ids
            /\ \A id \in DOMAIN lastKnownState.players \ ids :
                  lastKnownState'.players[id] = lastKnownState.players[id]
            /\ IF Has(data, "knives")
               THEN DOMAIN lastKnownState'.knives = Listed(data, "knives", "knifeId")
               ELSE lastKnownState'.knives = lastKnownState.knives]_vars

\* a full state with player 2 and knife 2 was handled after one with player 1 and
\* knife 1: knife 1 is gone, player 1 is still cached
C37_Witness ==
    /\ call.op = "stateUpdate"
    /\ call.arg = 2
    /\ DOMAIN lastKnownState.knives = {2}
    /\ lastKnownState.knives[2] = OtherKnife
    /\ DOMAIN lastKnownState.players = {1, 2}
    /\ lastKnownState.players[1] = FullPlayer
    /\ lastKnownState.players[2] = OtherPlayer

-----------------------------------------------------------------------------
(* Properties of the two listeners of the probe response *)

\* C38: a probe response on the socket of a NetClient, handled by the listener of
\* the TimeSync and by the listener of the NetClient, raises syncCount by at most 1
\* and leaves the TimeSync as a single handlePong call leaves it.
C38_ResponseCountsOnce ==
    [][call'.op = "handlePong" =>
        /\ timeSync'.syncCount \in {timeSync.syncCount, timeSync.syncCount + 1}
        /\ timeSync' = handlePong(timeSync, [seq |-> call'.arg, serverTime |-> call'.ret], now)]_vars

\* both listeners ran on the response to a pending probe, the second sample of the
\* TimeSync: it counts 2 samples and the probe is no longer pending
C38_Witness ==
    /\ call.op = "handlePong"
    /\ pongAccepted >= 0
    /\ timeSync.syncCount = 2
    /\ Pending(timeSync, call.arg) = {}

-----------------------------------------------------------------------------
(* Properties of the pending reconnect timers *)

\* C39: at most one reconnect timer is pending at any time, whatever the order of
\* connects, disconnects and timer firings.
C39_OneReconnectTimerPending == Cardinality(ReconnectTimers) <= 1

\* a recoverable disconnect, a connect before the timer ran, and another
\* recoverable disconnect: two reconnect timers are pending
C39_Witness ==
    /\ call.op = "disconnect"
    /\ recoverable
    /\ client.reconnecting
    /\ client.reconnectAttempt = 1
    /\ Cardinality(ReconnectTimers) = 2

-----------------------------------------------------------------------------
(* Properties of the buffered sequences and the ack cursor *)

\* every buffered entry has a sequence above the ack cursor
AboveCursor(buf, cursor) == \A i \in DOMAIN buf : buf[i].seq > cursor

\* C40 (as stated): in every reachable state of the InputBuffer every buffered entry
\* has a sequence strictly greater than the ack cursor, whatever cursors were
\* acknowledged.
C40_BufferedAboveCursor == AboveCursor(buffer, lastProcessedSeq)

\* C40 (corrected): an acknowledge that advances the ack cursor leaves only entries
\* with a sequence above it, and as long as the ack cursor has stayed below the
\* next sequence to allocate, every buffered entry has a sequence above the cursor.
C40_BufferedAboveAllocatedCursor ==
    /\ [][(call'.op = "acknowledge" /\ call'.arg > lastProcessedSeq)
            => (lastProcessedSeq' = call'.arg /\ AboveCursor(buffer', lastProcessedSeq'))]_vars
    /\ ([](lastProcessedSeq < nextSeq) => []AboveCursor(buffer, lastProcessedSeq))

\* three inputs were buffered and acknowledge(1) has dropped the first
C40_Witness ==
    /\ call.op = "acknowledge"
    /\ call.arg = 1
    /\ lastProcessedSeq = 1
    /\ SeqsOf(buffer) = {2, 3}

=============================================================================
